---------------------------- MODULE Spec2Model ----------------------------
(***************************************************************************)
(* Libra: transport arbitration (peer/connection_manager.py) and the       *)
(* pending-message retry queue (db/db_handler.py).                          *)
(*                                                                         *)
(* SpecP2P   one call of attempt_direct_p2p, send_message_auto or           *)
(*           monitor_connection_health, with the worker thread of the       *)
(*           executor, the garbage collector and a concurrent               *)
(*           connect_to_peer retry sender for the same peer.                *)
(* SpecRetry one call of DBHandler.retry_pending_messages over a small      *)
(*           messages table.                                                *)
(***************************************************************************)
EXTENDS Integers, Sequences, FiniteSets, TLC

---------------------------------------------------------------------------
(* Bounds of the model *)

\* largest timeout argument tried for a direct call of attempt_direct_p2p
MaxTimeout == 2
\* how far the connect clock runs (must pass DefaultTimeout)
MaxClock == 8
\* largest check_interval tried for a direct call of monitor_connection_health
MaxInterval == 2
\* successful heartbeats after which only the failing send is explored
MaxHeartbeats == 2
\* messages the concurrent connect_to_peer retry sender has to send
MaxSenderMsgs == 2
\* rows of the messages table
MaxMsgs == 3
\* largest max_retries argument tried
MaxRetries == 2
\* retry_pending_messages calls made one after the other for the same peer
MaxCalls == 2
\* rows of the messages table when all writers of sync_status run together
MaxStatusMsgs == 2
\* start_tor calls on one TorManager
MaxStarts == 2
\* onion services created on the controllers of one TorManager
MaxServices == 3
\* largest timeout (seconds) tried for wait_for_tor_bootstrap
MaxBootTimeout == 2
\* half seconds one controller.get_info call may block
MaxPollBlock == 3
\* threads that call create_ephemeral_onion_service of one TorManager
MaxThreads == 2
\* calls they make altogether
MaxConcCalls == 4
\* largest beacon timestamp
MaxBeaconTs == 2
\* datagrams one PeerDiscovery receives
MaxPackets == 1
\* largest interval argument of PeerDiscovery, in ticks of 0.2 s
MaxIntervalTicks == 2
\* stop() calls on one PeerDiscovery
MaxStops == 2
\* how far the clock runs after the stop flag was set (must pass
\* RxTimeoutTicks)
MaxDiscClock == 7
\* how far the clock of the transmit loop is counted (must pass one second)
MaxTxClock == 6
\* longest file, in bytes
MaxFileLen == 5
\* bytes one f.read of split_file returns in the model, in place of
\* CHUNK_SIZE
ChunkLen == 2
\* messages that are no file chunks sent on the socket of a transfer
MaxOtherMsgs == 1
\* messages altered between sender and receiver
MaxFaults == 1
\* tunnel handler: connections, values of id(ws), messages, seconds
MaxConns == 2
MaxConnIds == 2
MaxTunnelMsgs == 4
MaxTunnelClock == 5
\* receive path: recv calls that return data, zlib layers around a message
MaxCodecMsgs == 2
MaxLayers == 1
\* sync_messages: rows of the messages table, entries of known_clock, calls
MaxSyncRows == 2
MaxKnownClock == 2
MaxSyncCalls == 2

(* Program constants *)

\* attempt_direct_p2p(..., timeout=7)
DefaultTimeout == 7
\* monitor_connection_health(..., check_interval=5)
DefaultInterval == 5
\* retry_pending_messages(..., max_retries: int = 5)
DefaultMaxRetries == 5
\* start_tor: max_attempts = 30
MaxAttempts == 30
\* stop_tor: self.tor_process.wait(timeout=5)
GraceSeconds == 5
\* wait_for_tor_bootstrap: time.sleep(0.5), so the clock counts half seconds
TicksPerSecond == 2
\* receive_rendezvous: tor_socket.recv(4096)
RecvBufSize == 4096
\* file_transfer.py: CHUNK_SIZE = 64 * 1024
CHUNK_SIZE == 65536
\* PeerDiscovery.stop: time.sleep(0.2), one tick of the discovery clock
GraceTicks == 1
\* PeerDiscovery.start: rx_sock.settimeout(1.0), five ticks of 0.2 s
RxTimeoutTicks == 5

---------------------------------------------------------------------------
(* Sockets.  TorSock is the caller's pre-established fallback, DirectSock   *)
(* the socket _connect_to_peer creates inside attempt_direct_p2p (or the    *)
(* socket handed to monitor_connection_health), PeerSock the socket that    *)
(* connect_to_peer opened to the same peer and captured in send_func.       *)
TorSock == "tor_socket"
DirectSock == "direct_sock"
PeerSock == "peer_sock"
Socks == {TorSock, DirectSock, PeerSock}

VARIABLES
    inp,          \* the arguments and the manager state the call starts from
    callPc,       \* attempt_direct_p2p, calling thread
    workerPc,     \* direct_connect, executor worker thread
    workerRet,    \* what direct_connect returned: "pending", "None", "sock"
    result,       \* attempt_direct_p2p's result dict
    timedOut,     \* future.result raised TimeoutError
    clock,        \* seconds since future.result(timeout) started waiting
    returnClock,  \* clock when attempt_direct_p2p returned, -1 before
    connectCalls, \* invocations of _connect_to_peer by direct_connect
    sockState,    \* socket -> "unused", "created", "connected", "closed"
    wire,         \* socket -> what was written on it, in order
    autoPc,       \* send_message_auto
    autoRet,      \* its return value, "none" before
    msgSendCalls, \* socket.send calls made for send_message_auto's message
    monPc,        \* monitor_connection_health
    monRet,       \* its return value, "none" before
    sleepClock,   \* seconds slept since the last heartbeat
    hbOk,         \* heartbeats sent
    hbFail,       \* heartbeat sends that raised
    hbGapOk,      \* every heartbeat but the first followed a full sleep
    sndPc,        \* connect_to_peer retry sender
    sndLeft,      \* messages it still has to send
    lateSends,    \* messages written on a direct socket of the peer after
                  \* the monitor reported the failover
    msgs,         \* the messages table: message_id -> row
    msgs0,        \* the table when retry_pending_messages was called
    rArgs,        \* retry_pending_messages' peer_id, max_retries, send_func
    rPc,          \* retry_pending_messages
    pending,      \* its local list of pending rows (message ids)
    rIdx,         \* position of the for loop in pending
    retries,      \* local retries
    backoff,      \* local backoff
    calls,        \* message_id -> send_func invocations
    okCalls,      \* message_id -> send_func invocations that returned True
    sleeps,       \* message_id -> the time.sleep arguments, in order
    reported,     \* message ids whose "Failed to send" line was printed
    callNo,       \* which retry_pending_messages call for the peer this is
    sendLog,      \* message ids send_func was called with in this call, in order
    sentLog,      \* <<callNo, message_id>> in the order retry marked rows sent
    bgPc,         \* MessageBackendThread._process_pending_messages
    bgPending,    \* its local list of pending rows (message ids)
    bgIdx,        \* position of its for loop
    activeConns,  \* peers with an entry in active_connections
    timers,       \* message ids with a QTimer.singleShot(mark_message_sent) armed
    transmitted,  \* message ids a sender wrote on a socket (send_func
                  \* reported success, or the backend's send went through)
    acked,        \* message ids handle_client received an ACK for
    written,      \* <<path, message id>>: the messages a retry path
                  \* ("retry", "backend") wrote on the peer's socket
    torCtl,       \* TorManager.controller: "none", "auth", "unauth"
    torProc,      \* TorManager.tor_process: "none" or "running"
    alive,        \* tor processes spawned by the manager and not terminated
    circuit_cache,\* peer_id -> cached service id, 0 when absent
    services,     \* service ids live on the running controller
    nextSid,      \* service ids handed out so far
    starts,       \* start_tor calls so far
    startPc,      \* start_tor: "off", "idle", "loop", "returned", "raised"
    attempt,      \* start_tor's loop variable
    tried,        \* control-port attempts made by the current start_tor
    okAttempts,   \* those that connected and authenticated
    lastOp,       \* the last TorManager call and what it returned
    retAddrs,     \* peer_id -> service ids returned for it so far
    createdFor,   \* peer_id -> services created on a controller for it
    rotatedOld,   \* service ids that existed when a rotation ran
    bootPc,       \* wait_for_tor_bootstrap: "off", "check", "poll", "sleep",
                  \* "returned"
    bootTimeout,  \* its timeout argument, in seconds
    bootCtl,      \* self.controller of that manager: "none" or "auth"
    bootPhase,    \* tor's bootstrap progress in percent
    bootClock,    \* half seconds since the call started
    pollClock,    \* half seconds the current get_info has been blocking
    bootRet,      \* the return value: "none", "True", "False", "raised"
    bootReturnClock, \* bootClock when the call returned, -1 before
    bootSaw100,   \* a poll reported bootstrap 100%
    thrPc,        \* thread -> where it is in create_ephemeral_onion_service
    thrKey,       \* thread -> the peer_id argument of its call
    thrRet,       \* thread -> the service id its last call returned, 0 before
    thrSid,       \* thread -> the service id its controller request got, 0 before
    thrCalls,     \* thread -> calls it has made
    peerStore,    \* the peers table: peer_id -> row
    storeBefore,  \* the table when the last _handle_packet call started
    pktCount,     \* datagrams handed to _handle_packet so far
    lastPkt,      \* the last of them
    lastOut,      \* how far _handle_packet got with it
    pktRaised,    \* a _handle_packet call raised
    stopFlag,     \* PeerDiscovery._stop_event is set
    stopPc,       \* stop(): "off", "idle", "sleeping", "returned"
    stopSlept,    \* ticks of its time.sleep(0.2) gone by
    stopCalls,    \* stop() calls so far
    stopRaised,   \* a stop() call raised
    dInterval,    \* self.interval, in ticks
    txPc,         \* _tx_loop: "off", "check", "send", "sleep", "exited"
    txSlept,      \* ticks of its time.sleep(self.interval) gone by
    rxPc,         \* _rx_loop: "off", "check", "recv", "exited"
    rxWaited,     \* ticks its recvfrom has been waiting
    sinceStop,    \* ticks since the stop flag was set, -1 before
    txExit,       \* sinceStop when _tx_loop returned, -1 before
    rxExit,       \* sinceStop when _rx_loop returned, -1 before
    dbConn,       \* self.db._conn: "open" or "closed"
    dClock,       \* ticks since start(), counted up to MaxTxClock
    beaconTs,     \* the timestamp in the beacon the transmit loop holds
    txLast,       \* the last transmission: the timestamp sent and the tick
    fFile,        \* the bytes of the file that is split and sent
    fHash,        \* its hash as save_file_to_storage computed it
    genPc,        \* the split_file generator: "off", "reading", "ended"
    genPos,       \* bytes it has read
    genSeq,       \* its seq
    yielded,      \* the <<seq, chunk>> pairs it has yielded, in order
    reDone,       \* reassemble_file was called on the yielded chunks
    reOrder,      \* the order they were supplied in
    reOut,        \* the file it wrote
    fSndPc,       \* send_file_chunks: "off", "sending", "done", "closed"
    fWire,        \* messages sent on the socket and not yet received
    fOthers,      \* messages other than file chunks sent on it
    fFaults,      \* messages altered on the way
    fRcvPc,       \* receive_file_chunks: "off", "recv", "returned", "raised"
    chunk_count,  \* its chunk_count argument
    received_chunks, \* its received_chunks list
    fWritten,     \* receive_file_chunks called reassemble_file
    fOut,         \* the output file it wrote
    fReported,    \* an integrity mismatch was reported to the caller
    rdvIn,        \* the arguments and keys of one rendezvous exchange
    rdvSndPc,     \* the sender: "off", "idle", "sent", "raised"
    rdvSent,      \* the payload it built
    rdvWire,      \* the envelope on the channel
    rdvTamper,    \* what was done to the envelope on the way
    rdvRcvPc,     \* the receiver: "off", "idle", "returned", "discarded", "raised"
    rdvVerify,    \* what its verify_signature call gave: "none", "True",
                  \* "False", "raised"
    rdvPayload,   \* the payload it returned or accepted
    tnClock,      \* time.time() of the tunnel handler, in seconds
    connection_times, \* TunnelHandler._connection_times: id -> timestamps
    tnConn,       \* the WebSocket connections: state and id(ws)
    tnProcessed,  \* per connection, the times of its messages that passed
                  \* the rate limiter
    tnMsgs,       \* messages handled so far
    tnResp,       \* per connection, the last answer and the number of its
                  \* own processed messages inside the window at that time
    crPc,         \* connect_to_peer: "off", "start", "retrying", "returned"
    crRet,        \* its return value, "none" before
    crSock,       \* the socket it connected: "none", "connected", "broken"
    crWire,       \* ids of the messages written on that socket
    crContent,    \* message_id -> how the row holds its content
    cdWire,       \* what recv returns to receive_file_chunks, call by call
    cdPc,         \* receiver -> "off", "recv", "raised", "returned"
    cdIdx,        \* receiver -> recv calls that returned data
    cdChunks,     \* receiver -> its received_chunks
    syTable,      \* the messages table: row id -> peer_id of the row
    syKnown,      \* the known_clock the calls of sync_messages are given
    syPc,         \* sync_messages: "off", "idle", "adding"
    syTodo,       \* db_messages not yet passed to add_message
    syCalls,      \* calls of sync_messages started
    vector_clocks,\* CRDTEngine.vector_clocks (0: peer_id not in the dict)
    crdtMessages, \* CRDTEngine.messages: row id -> message or NoCrdtMsg
    syHist        \* per finished call: what it returned and the engine then

attemptVars == <<callPc, workerPc, workerRet, result, timedOut, clock,
                 returnClock, connectCalls>>
autoVars == <<autoPc, autoRet, msgSendCalls>>
monVars == <<monPc, monRet, sleepClock, hbOk, hbFail, hbGapOk>>
sndVars == <<sndPc, sndLeft>>
sockVars == <<sockState, wire, lateSends>>

p2pVars == <<inp, attemptVars, autoVars, monVars, sndVars, sockVars>>

retryVars == <<msgs, msgs0, rArgs, rPc, pending, rIdx, retries, backoff,
               calls, okCalls, sleeps, reported, callNo, sendLog, sentLog>>

statusVars == <<bgPc, bgPending, bgIdx, activeConns, timers, transmitted, acked,
                written>>

torVars == <<torCtl, torProc, alive, circuit_cache, services, nextSid, starts,
             startPc, attempt, tried, okAttempts, lastOp, retAddrs, createdFor,
             rotatedOld>>

bootVars == <<bootPc, bootTimeout, bootCtl, bootPhase, bootClock, pollClock,
              bootRet, bootReturnClock, bootSaw100>>

concVars == <<thrPc, thrKey, thrRet, thrSid, thrCalls>>

\* the subsystems modelled after the transport, retry and Tor lifecycle ones
discVars == <<peerStore, storeBefore, pktCount, lastPkt, lastOut, pktRaised>>
beaconVars == <<dClock, beaconTs, txLast>>
loopVars == <<stopFlag, stopPc, stopSlept, stopCalls, stopRaised, dInterval,
              txPc, txSlept, rxPc, rxWaited, sinceStop, txExit, rxExit, dbConn,
              beaconVars>>
splitVars == <<fFile, fHash, genPc, genPos, genSeq, yielded, reDone, reOrder, reOut>>
xferVars == <<fSndPc, fWire, fOthers, fFaults, fRcvPc, chunk_count,
              received_chunks, fWritten, fOut, fReported>>
fileVars == <<splitVars, xferVars>>
rdvVars == <<rdvIn, rdvSndPc, rdvSent, rdvWire, rdvTamper, rdvRcvPc, rdvVerify,
             rdvPayload>>
tunVars == <<tnClock, connection_times, tnConn, tnProcessed, tnMsgs, tnResp>>
\* the subsystems modelled last
crVars == <<crPc, crRet, crSock, crWire, crContent>>
codecVars == <<cdWire, cdPc, cdIdx, cdChunks>>
syncVars == <<syTable, syKnown, syPc, syTodo, syCalls, vector_clocks,
              crdtMessages, syHist>>
lateVars == <<tunVars, crVars, codecVars, syncVars>>
midVars == <<concVars, discVars, loopVars, fileVars, rdvVars>>
extVars == <<midVars, lateVars>>

\* everything but the variables of one subsystem
nonP2PVars == <<retryVars, statusVars, torVars, bootVars, extVars>>
nonRetryVars == <<p2pVars, statusVars, torVars, bootVars, extVars>>
\* what no writer of the messages table touches
nonMsgVars == <<p2pVars, torVars, bootVars, extVars>>
nonTorVars == <<p2pVars, retryVars, statusVars, bootVars, extVars>>
nonBootVars == <<p2pVars, retryVars, statusVars, torVars, extVars>>
coreVars == <<p2pVars, retryVars, statusVars, torVars, bootVars>>
\* what no concurrent create_ephemeral_onion_service call touches, the
\* TorManager apart
nonConcVars == <<p2pVars, retryVars, statusVars, bootVars, discVars, loopVars,
                 fileVars, rdvVars, lateVars>>
\* what _handle_packet does not touch, the database connection apart
nonDiscVars == <<coreVars, concVars, fileVars, rdvVars, lateVars>>
nonFileVars == <<coreVars, concVars, discVars, loopVars, rdvVars, lateVars>>
nonRdvVars == <<coreVars, concVars, discVars, loopVars, fileVars, lateVars>>
nonTunVars == <<coreVars, midVars, crVars, codecVars, syncVars>>
\* what connect_to_peer and its retry of pending messages do not touch
nonCrVars == <<p2pVars, statusVars, torVars, bootVars, midVars, tunVars, codecVars,
              syncVars>>
nonCodecVars == <<coreVars, midVars, tunVars, crVars, syncVars>>
\* what sync_messages and the CRDT engine do not touch
nonSyncVars == <<coreVars, midVars, tunVars, crVars, codecVars>>

vars == <<p2pVars, retryVars, statusVars, torVars, bootVars, extVars>>

---------------------------------------------------------------------------
(* Inputs *)

\* peer_nat_info.get('external_ip'): key absent (None), '' or an address
IpValues == {"absent", "empty", "addr"}
\* peer_nat_info.get('external_port'): key absent, 0 or '', a port number,
\* or a non-empty string int() rejects
PortValues == {"absent", "empty", "num", "nonnum"}
\* self.my_info: never assigned (only _save_peers assigns it), the
\* placeholder dict of _save_peers whose public_key is a str, or a dict the
\* caller stored with an RSA public key object
MyInfoValues == {"unset", "placeholder", "rsa_key"}

AttemptInputs ==
    {[entry |-> "attempt_direct_p2p", ip |-> i, port |-> p, myInfo |-> m,
      peerKeyOk |-> k, timeout |-> t, interval |-> DefaultInterval] :
        i \in IpValues, p \in PortValues, m \in MyInfoValues,
        k \in BOOLEAN, t \in 1..MaxTimeout}

\* send_message_auto passes no timeout and no check_interval
AutoInputs ==
    {[entry |-> "send_message_auto", ip |-> i, port |-> p, myInfo |-> m,
      peerKeyOk |-> k, timeout |-> DefaultTimeout, interval |-> DefaultInterval] :
        i \in IpValues, p \in PortValues, m \in MyInfoValues, k \in BOOLEAN}

\* a direct call: sock is a connected socket of the caller
MonitorInputs ==
    {[entry |-> "monitor_connection_health", ip |-> "addr", port |-> "num",
      myInfo |-> "rsa_key", peerKeyOk |-> TRUE, timeout |-> DefaultTimeout,
      interval |-> c] : c \in 0..MaxInterval}

Inputs == AttemptInputs \cup AutoInputs \cup MonitorInputs

TorResult == [channel |-> "tor", socket |-> TorSock]

\* no retry_pending_messages call is part of SpecP2P
RetryIdle ==
    /\ msgs = << >>
    /\ msgs0 = << >>
    /\ rArgs = [peer_id |-> "none", max_retries |-> 0, send_func |-> "none"]
    /\ rPc = "idle"
    /\ pending = << >>
    /\ rIdx = 0
    /\ retries = 0
    /\ backoff = 0
    /\ calls = << >>
    /\ okCalls = << >>
    /\ sleeps = << >>
    /\ reported = {}
    /\ callNo = 0
    /\ sendLog = << >>
    /\ sentLog = << >>

\* no backend thread, GUI timer or ACK handler is part of the specification
StatusIdle ==
    /\ bgPc = "off"
    /\ bgPending = << >>
    /\ bgIdx = 0
    /\ activeConns = {}
    /\ timers = {}
    /\ transmitted = {}
    /\ acked = {}
    /\ written = {}

\* peer ids passed to create_ephemeral_onion_service; "none" is the default
\* peer_id=None
PeerKeys == {"peer_a", "peer_b"}
KeyArgs == PeerKeys \cup {"none"}

NoOp == [op |-> "none", key |-> "none", sid |-> 0, cached |-> FALSE,
         raised |-> FALSE, waited |-> 0, noop |-> FALSE]

\* TorManager.__init__ (utils/tor_manager.py 12-21)
TorFresh ==
    /\ torCtl = "none"
    /\ torProc = "none"
    /\ alive = 0
    /\ circuit_cache = [k \in PeerKeys |-> 0]
    /\ services = {}
    /\ nextSid = 0
    /\ starts = 0
    /\ attempt = 0
    /\ tried = 0
    /\ okAttempts = 0
    /\ lastOp = NoOp
    /\ retAddrs = [k \in KeyArgs |-> {}]
    /\ createdFor = [k \in KeyArgs |-> 0]
    /\ rotatedOld = {}

\* no TorManager call is part of the specification
TorIdle == TorFresh /\ startPc = "off"

\* no wait_for_tor_bootstrap call is part of the specification
BootIdle ==
    /\ bootPc = "off"
    /\ bootTimeout = 0
    /\ bootCtl = "none"
    /\ bootPhase = 0
    /\ bootClock = 0
    /\ pollClock = 0
    /\ bootRet = "none"
    /\ bootReturnClock = -1
    /\ bootSaw100 = FALSE

\* threads calling one TorManager concurrently
Threads == 1..MaxThreads

\* no concurrent caller of a TorManager is part of the specification
ConcIdle ==
    /\ thrPc = [t \in Threads |-> "off"]
    /\ thrKey = [t \in Threads |-> "none"]
    /\ thrRet = [t \in Threads |-> 0]
    /\ thrSid = [t \in Threads |-> 0]
    /\ thrCalls = [t \in Threads |-> 0]

\* RSA key pairs: a public key verifies what its private key signed
Keys == {"key_a", "key_b"}

\* a peers row as _handle_packet and the claims read it; public_key "null"
\* is a row added without a key (add_peer's default public_key=None),
\* last_seen 0 a row never seen
NoRow == [present |-> FALSE, public_key |-> "null", last_seen |-> 0]

\* the datagram variable before any datagram arrived
NoPkt == [outer |-> "ok",
          payload |-> [form |-> "ok", peer_id |-> "peer_a", timestamp |-> 0,
                       public_key |-> "key_a"],
          signature |-> [signer |-> "key_a", intact |-> FALSE,
                         over |-> [form |-> "ok", peer_id |-> "peer_a",
                                   timestamp |-> 0, public_key |-> "key_a"]]]

\* no PeerDiscovery receives a datagram in the specification
DiscIdle ==
    /\ peerStore = [p \in PeerKeys |-> NoRow]
    /\ storeBefore = [p \in PeerKeys |-> NoRow]
    /\ pktCount = 0
    /\ lastPkt = NoPkt
    /\ lastOut = "none"
    /\ pktRaised = FALSE

\* no PeerDiscovery was started in the specification
\* nothing was transmitted yet
NoTx == [ts |-> -1, at |-> -1]

LoopIdle ==
    /\ stopFlag = FALSE
    /\ stopPc = "off"
    /\ stopSlept = 0
    /\ stopCalls = 0
    /\ stopRaised = FALSE
    /\ dInterval = 0
    /\ txPc = "off"
    /\ txSlept = 0
    /\ rxPc = "off"
    /\ rxWaited = 0
    /\ sinceStop = -1
    /\ txExit = -1
    /\ rxExit = -1
    /\ dbConn = "closed"
    /\ dClock = 0
    /\ beaconTs = -1
    /\ txLast = NoTx

\* no file is split or transferred in the specification
FileIdle ==
    /\ fFile = << >>
    /\ fHash = [sha256 |-> << >>]
    /\ genPc = "off"
    /\ genPos = 0
    /\ genSeq = 0
    /\ yielded = << >>
    /\ reDone = FALSE
    /\ reOrder = << >>
    /\ reOut = << >>
    /\ fSndPc = "off"
    /\ fWire = << >>
    /\ fOthers = 0
    /\ fFaults = 0
    /\ fRcvPc = "off"
    /\ chunk_count = 0
    /\ received_chunks = << >>
    /\ fWritten = FALSE
    /\ fOut = << >>
    /\ fReported = FALSE

\* the rendezvous payload variable before a payload was built or returned
NoPayload == [type |-> "none", public_key |-> "none", session_info |-> "none",
              nat_info |-> "none"]

NoSig == [signer |-> "none", intact |-> FALSE, over |-> NoPayload]

\* nothing on the channel
NoEnv == [form |-> "none", rcpt |-> "none", intact |-> FALSE, len |-> 0,
          plaintext |-> [form |-> "none", payload |-> NoPayload,
                         signature |-> NoSig, sigForm |-> "absent"]]

NoRdvIn == [variant |-> "none", myKey |-> "unset", senderKey |-> "none",
            signKey |-> "none", rcpt |-> "none", rcvKey |-> "none",
            session_info |-> "none", nat_info |-> "none"]

\* no rendezvous exchange is part of the specification
RdvIdle ==
    /\ rdvIn = NoRdvIn
    /\ rdvSndPc = "off"
    /\ rdvSent = NoPayload
    /\ rdvWire = NoEnv
    /\ rdvTamper = "none"
    /\ rdvRcvPc = "off"
    /\ rdvVerify = "none"
    /\ rdvPayload = NoPayload

Conns == 1..MaxConns
ConnIds == 1..MaxConnIds

NoResp == [status |-> "none", own |-> 0]

\* no tunnel handler is part of the specification
TunIdle ==
    /\ tnClock = 0
    /\ connection_times = [i \in ConnIds |-> << >>]
    /\ tnConn = [c \in Conns |-> [st |-> "off", id |-> 0]]
    /\ tnProcessed = [c \in Conns |-> << >>]
    /\ tnMsgs = 0
    /\ tnResp = [c \in Conns |-> NoResp]

\* no connect_to_peer call is part of the specification
CrIdle ==
    /\ crPc = "off"
    /\ crRet = "none"
    /\ crSock = "none"
    /\ crWire = {}
    /\ crContent = << >>

\* receive_file_chunks is called with and without a tor_manager
Receivers == {"with_tor_manager", "without"}

\* no receiver decodes anything in the specification
CodecIdle ==
    /\ cdWire = << >>
    /\ cdPc = [r \in Receivers |-> "off"]
    /\ cdIdx = [r \in Receivers |-> 0]
    /\ cdChunks = [r \in Receivers |-> << >>]

\* the peer_id values of the rows of the messages table
SyncPeers == {"peer1", "peer2"}

\* a peer_id that is no key of known_clock
NotInClock == -1

\* a row id that is no key of CRDTEngine.messages
NoCrdtMsg == [content |-> 0, peer_id |-> "none", timestamp |-> 0]

\* sync_messages is not called in the specification
SyncIdle ==
    /\ syTable = << >>
    /\ syKnown = [p \in SyncPeers |-> NotInClock]
    /\ syPc = "off"
    /\ syTodo = << >>
    /\ syCalls = 0
    /\ vector_clocks = [p \in SyncPeers |-> 0]
    /\ crdtMessages = [i \in 1..MaxSyncRows |-> NoCrdtMsg]
    /\ syHist = << >>

LateIdle ==
    /\ TunIdle
    /\ CrIdle
    /\ CodecIdle
    /\ SyncIdle

MidIdle ==
    /\ ConcIdle
    /\ DiscIdle
    /\ LoopIdle
    /\ FileIdle
    /\ RdvIdle

ExtIdle ==
    /\ MidIdle
    /\ LateIdle

InitP2P ==
    /\ ExtIdle
    /\ RetryIdle
    /\ StatusIdle
    /\ TorIdle
    /\ BootIdle
    /\ inp \in Inputs
    /\ callPc = IF inp.entry = "monitor_connection_health" THEN "idle" ELSE "start"
    /\ workerPc = "none"
    /\ workerRet = "pending"
    /\ result = TorResult
    /\ timedOut = FALSE
    /\ clock = 0
    /\ returnClock = -1
    /\ connectCalls = 0
    /\ sockState = [s \in Socks |->
                      IF s = TorSock THEN "connected"
                      ELSE IF s = PeerSock /\ inp.entry # "attempt_direct_p2p"
                           THEN "connected"
                      ELSE IF s = DirectSock /\ inp.entry = "monitor_connection_health"
                           THEN "connected"
                      ELSE "unused"]
    /\ wire = [s \in Socks |-> << >>]
    /\ autoPc = IF inp.entry = "send_message_auto" THEN "attempt" ELSE "idle"
    /\ autoRet = "none"
    /\ msgSendCalls = 0
    /\ monPc = IF inp.entry = "monitor_connection_health" THEN "send" ELSE "idle"
    /\ monRet = "none"
    /\ sleepClock = 0
    /\ hbOk = 0
    /\ hbFail = 0
    /\ hbGapOk = TRUE
    /\ sndPc = IF inp.entry = "attempt_direct_p2p" THEN "off" ELSE "sending"
    /\ sndLeft = IF inp.entry = "attempt_direct_p2p" THEN 0 ELSE MaxSenderMsgs
    /\ lateSends = 0

---------------------------------------------------------------------------
(* attempt_direct_p2p: the calling thread *)

\* mutant of ChannelResult: any finished future is reported as direct
ChannelResult_AlwaysDirect(ret) == [channel |-> "direct", socket |-> DirectSock]

\* lines 43-48: the result dict after future.result returned direct_sock
ChannelResult(ret) ==
    IF ret = "sock" THEN [channel |-> "direct", socket |-> DirectSock]
    ELSE TorResult

\* lines 16, 40-41: result = tor fallback; executor.submit(direct_connect)
CallSubmit ==
    /\ callPc = "start"
    /\ callPc' = "wait"
    /\ workerPc' = "start"
    /\ result' = TorResult
    /\ UNCHANGED <<workerRet, timedOut, clock, returnClock, connectCalls>>
    /\ UNCHANGED <<inp, autoVars, monVars, sndVars, sockVars>>
    /\ UNCHANGED nonP2PVars

\* lines 43-48: future.result(timeout) returns what direct_connect returned
CallGetResult ==
    /\ callPc = "wait"
    /\ workerPc = "done"
    /\ result' = ChannelResult(workerRet)
    /\ callPc' = "join"
    /\ UNCHANGED <<workerPc, workerRet, timedOut, clock, returnClock, connectCalls>>
    /\ UNCHANGED <<inp, autoVars, monVars, sndVars, sockVars>>
    /\ UNCHANGED nonP2PVars

\* lines 49-50: future.result raises TimeoutError, result stays the fallback
CallTimeout ==
    /\ callPc = "wait"
    /\ workerPc # "done"
    /\ clock >= inp.timeout
    /\ timedOut' = TRUE
    /\ callPc' = "join"
    /\ UNCHANGED <<workerPc, workerRet, result, clock, returnClock, connectCalls>>
    /\ UNCHANGED <<inp, autoVars, monVars, sndVars, sockVars>>
    /\ UNCHANGED nonP2PVars

\* whether ThreadPoolExecutor.__exit__ (shutdown(wait=True)) lets the caller go
JoinDone(wpc) == wpc = "done"

\* lines 40, 51: leaving the with block joins the worker thread; only then
\* return result
CallReturn ==
    /\ callPc = "join"
    /\ JoinDone(workerPc)
    /\ callPc' = "returned"
    /\ returnClock' = clock
    /\ UNCHANGED <<workerPc, workerRet, result, timedOut, clock, connectCalls>>
    /\ UNCHANGED <<inp, autoVars, monVars, sndVars, sockVars>>
    /\ UNCHANGED nonP2PVars

\* One second passes while the worker is blocked in a socket call (connect
\* at line 221, which sets no socket timeout, or sendall at line 34) and the
\* caller is blocked in future.result (not past its timeout) or in the
\* executor's join.
TickConnect ==
    /\ callPc \in {"wait", "join"}
    /\ workerPc \in {"connect", "send"}
    /\ ~(callPc = "wait" /\ clock >= inp.timeout)
    /\ clock < MaxClock
    /\ clock' = clock + 1
    /\ UNCHANGED <<callPc, workerPc, workerRet, result, timedOut, returnClock,
                   connectCalls>>
    /\ UNCHANGED <<inp, autoVars, monVars, sndVars, sockVars>>
    /\ UNCHANGED nonP2PVars

---------------------------------------------------------------------------
(* attempt_direct_p2p: direct_connect on the worker thread *)

\* mutant of NatMissing: only the host is tested
NatMissing_HostOnly(nat) == nat.ip \in {"absent", "empty"}

\* lines 20-23: if not host or not port: return None
NatMissing(nat) ==
    nat.ip \in {"absent", "empty"} \/ nat.port \in {"absent", "empty"}

\* lines 18-24, 36-38: read host and port; return None when one is missing;
\* int(port) raising ValueError is caught and returns None as well
WorkerCheckNat ==
    /\ workerPc = "start"
    /\ IF NatMissing(inp) \/ inp.port = "nonnum"
       THEN workerPc' = "done" /\ workerRet' = "None"
       ELSE workerPc' = "connect" /\ UNCHANGED workerRet
    /\ UNCHANGED <<callPc, result, timedOut, clock, returnClock, connectCalls>>
    /\ UNCHANGED <<inp, autoVars, monVars, sndVars, sockVars>>
    /\ UNCHANGED nonP2PVars

\* line 24 and _connect_to_peer (208-223): socket.socket() allocates the
\* descriptor, connect() either succeeds or raises (refused, unreachable,
\* OS timeout); the exception is caught at lines 36-38
WorkerConnect ==
    /\ workerPc = "connect"
    /\ connectCalls' = connectCalls + 1
    /\ \E ok \in BOOLEAN :
        IF ok
        THEN /\ sockState' = [sockState EXCEPT ![DirectSock] = "connected"]
             /\ workerPc' = "build"
             /\ UNCHANGED workerRet
        ELSE /\ sockState' = [sockState EXCEPT ![DirectSock] = "created"]
             /\ workerPc' = "done"
             /\ workerRet' = "None"
    /\ UNCHANGED <<callPc, result, timedOut, clock, returnClock>>
    /\ UNCHANGED <<inp, autoVars, monVars, sndVars, wire, lateSends>>
    /\ UNCHANGED nonP2PVars

\* lines 26-33: self.my_info raises AttributeError when never assigned,
\* serialize_public_key raises on the placeholder str, load_public_key
\* raises on a PEM that does not parse
BuildOk(i) == i.myInfo = "rsa_key" /\ i.peerKeyOk

\* lines 26-33, 36-38: build, pack and encrypt the rendezvous payload; any
\* exception returns None and leaves sock as it is
WorkerBuild ==
    /\ workerPc = "build"
    /\ IF BuildOk(inp)
       THEN workerPc' = "send" /\ UNCHANGED workerRet
       ELSE workerPc' = "done" /\ workerRet' = "None"
    /\ UNCHANGED <<callPc, result, timedOut, clock, returnClock, connectCalls>>
    /\ UNCHANGED <<inp, autoVars, monVars, sndVars, sockVars>>
    /\ UNCHANGED nonP2PVars

\* mutant of SendResult: sock is returned although sendall raised
SendResult_IgnoreError(ok) == "sock"

\* lines 34-38: what direct_connect returns after sock.sendall
SendResult(ok) == IF ok THEN "sock" ELSE "None"

\* lines 34-38: sock.sendall(encrypted) then return sock; a raising sendall
\* returns None
WorkerSend ==
    /\ workerPc = "send"
    /\ \E ok \in BOOLEAN :
        /\ wire' = IF ok THEN [wire EXCEPT ![DirectSock] = Append(@, "rendezvous")]
                   ELSE wire
        /\ workerRet' = SendResult(ok)
    /\ workerPc' = "done"
    /\ UNCHANGED <<callPc, result, timedOut, clock, returnClock, connectCalls>>
    /\ UNCHANGED <<inp, autoVars, monVars, sndVars, sockState, lateSends>>
    /\ UNCHANGED nonP2PVars

---------------------------------------------------------------------------
(* The garbage collector.  No line of attempt_direct_p2p, direct_connect or *)
(* _connect_to_peer calls close(): a socket the code dropped is closed only *)
(* when the runtime finalises the unreferenced object, at a moment the      *)
(* language does not fix.                                                   *)

\* who still holds the socket direct_connect created: the worker's frame
\* (local sock), the future's result until the call returns, the returned
\* result dict (held by the caller, or by send_message_auto's conn_result
\* until send_message_auto returns); a monitor_connection_health caller
\* owns the socket it passed
Referenced ==
    \/ inp.entry = "monitor_connection_health"
    \/ workerPc \in {"build", "send"}
    \/ workerRet = "sock" /\ callPc # "returned"
    \/ /\ callPc = "returned"
       /\ result.socket = DirectSock
       /\ (inp.entry = "attempt_direct_p2p" \/ autoPc # "returned")

Finalize ==
    /\ sockState[DirectSock] \in {"created", "connected"}
    /\ ~Referenced
    /\ sockState' = [sockState EXCEPT ![DirectSock] = "closed"]
    /\ UNCHANGED <<inp, attemptVars, autoVars, monVars, sndVars, wire, lateSends>>
    /\ UNCHANGED nonP2PVars

---------------------------------------------------------------------------
(* send_message, send_message_auto, monitor_connection_health *)

\* send_message (355-362): one client_socket.send(data); an exception is
\* printed and swallowed, the caller is told nothing
Written(w, sock, ok, what) ==
    IF ok THEN [w EXCEPT ![sock] = Append(@, what)] ELSE w

\* lines 74-78: the monitor is started for a direct channel only
AutoNeedsMonitor(channel) == channel = "direct"

\* lines 70-74: conn_result = attempt_direct_p2p(...); send_message(sock,
\* message); then monitor a direct channel, return channel otherwise
AutoSend ==
    /\ autoPc = "attempt"
    /\ callPc = "returned"
    /\ msgSendCalls' = msgSendCalls + 1
    /\ \E ok \in BOOLEAN :
        /\ ok => sockState[result.socket] = "connected"
        /\ wire' = Written(wire, result.socket, ok, "message")
    /\ IF AutoNeedsMonitor(result.channel)
       THEN autoPc' = "monitor" /\ monPc' = "send" /\ UNCHANGED autoRet
       ELSE autoPc' = "returned" /\ autoRet' = result.channel /\ UNCHANGED monPc
    /\ UNCHANGED <<monRet, sleepClock, hbOk, hbFail, hbGapOk>>
    /\ UNCHANGED <<inp, attemptVars, sndVars, sockState, lateSends>>
    /\ UNCHANGED nonP2PVars

\* lines 77-78: sock = monitor_connection_health(...); return channel
AutoReturn ==
    /\ autoPc = "monitor"
    /\ monPc = "returned"
    /\ autoPc' = "returned"
    /\ autoRet' = result.channel
    /\ UNCHANGED msgSendCalls
    /\ UNCHANGED <<inp, attemptVars, monVars, sndVars, sockVars>>
    /\ UNCHANGED nonP2PVars

\* mutant of HeartbeatNext: the exception is swallowed and the loop goes on
HeartbeatNext_KeepGoing(ok) == "sleep"

\* lines 58-64: where the loop goes after sock.send(b'\x00')
HeartbeatNext(ok) == IF ok THEN "sleep" ELSE "returned"

\* lines 58-64: send the heartbeat; on an exception return fallback_socket
MonHeartbeat ==
    /\ monPc = "send"
    /\ \E ok \in BOOLEAN :
        /\ ok => (hbOk < MaxHeartbeats /\ sockState[DirectSock] = "connected")
        /\ wire' = Written(wire, DirectSock, ok, "heartbeat")
        /\ hbOk' = IF ok THEN hbOk + 1 ELSE hbOk
        /\ hbFail' = IF ok THEN hbFail ELSE hbFail + 1
        /\ monPc' = HeartbeatNext(ok)
        /\ monRet' = IF HeartbeatNext(ok) = "returned" THEN TorSock ELSE monRet
    /\ sleepClock' = 0
    /\ UNCHANGED hbGapOk
    /\ UNCHANGED <<inp, attemptVars, autoVars, sndVars, sockState, lateSends>>
    /\ UNCHANGED nonP2PVars

\* line 61: time.sleep(check_interval) is over
SleepOver(slept, interval) == slept >= interval

\* line 61 -> 58: the sleep ends, the loop sends the next heartbeat
MonWake ==
    /\ monPc = "sleep"
    /\ SleepOver(sleepClock, inp.interval)
    /\ monPc' = "send"
    /\ hbGapOk' = (hbGapOk /\ sleepClock >= inp.interval)
    /\ UNCHANGED <<monRet, sleepClock, hbOk, hbFail>>
    /\ UNCHANGED <<inp, attemptVars, autoVars, sndVars, sockVars>>
    /\ UNCHANGED nonP2PVars

\* one second of time.sleep(check_interval) passes
TickSleep ==
    /\ monPc = "sleep"
    /\ sleepClock < inp.interval
    /\ sleepClock' = sleepClock + 1
    /\ UNCHANGED <<monPc, monRet, hbOk, hbFail, hbGapOk>>
    /\ UNCHANGED <<inp, attemptVars, autoVars, sndVars, sockVars>>
    /\ UNCHANGED nonP2PVars

---------------------------------------------------------------------------
(* connect_to_peer's retry path for the same peer, on another thread:      *)
(* send_func (194-201) closes over the sock connect_to_peer opened and      *)
(* retry_pending_messages calls it once per pending message (send_message   *)
(* never raises, so send_func always returns True).                         *)

SenderSend ==
    /\ sndPc = "sending"
    /\ sndLeft > 0
    /\ \E ok \in BOOLEAN :
        /\ wire' = Written(wire, PeerSock, ok, "retry_message")
        /\ lateSends' = IF ok /\ monPc = "returned" THEN lateSends + 1 ELSE lateSends
    /\ sndLeft' = sndLeft - 1
    /\ sndPc' = IF sndLeft = 1 THEN "done" ELSE "sending"
    /\ UNCHANGED <<inp, attemptVars, autoVars, monVars, sockState>>
    /\ UNCHANGED nonP2PVars

---------------------------------------------------------------------------
NextP2P ==
    \/ CallSubmit
    \/ CallGetResult
    \/ CallTimeout
    \/ CallReturn
    \/ TickConnect
    \/ WorkerCheckNat
    \/ WorkerConnect
    \/ WorkerBuild
    \/ WorkerSend
    \/ Finalize
    \/ AutoSend
    \/ AutoReturn
    \/ MonHeartbeat
    \/ MonWake
    \/ TickSleep
    \/ SenderSend

SpecP2P == InitP2P /\ [][NextP2P]_vars

---------------------------------------------------------------------------
(* DBHandler.retry_pending_messages (db/db_handler.py)                     *)

\* no connection-manager call is part of SpecRetry
P2PIdle ==
    /\ inp = [entry |-> "none", ip |-> "absent", port |-> "absent",
              myInfo |-> "unset", peerKeyOk |-> FALSE,
              timeout |-> DefaultTimeout, interval |-> DefaultInterval]
    /\ callPc = "idle"
    /\ workerPc = "none"
    /\ workerRet = "pending"
    /\ result = TorResult
    /\ timedOut = FALSE
    /\ clock = 0
    /\ returnClock = -1
    /\ connectCalls = 0
    /\ sockState = [s \in Socks |-> "unused"]
    /\ wire = [s \in Socks |-> << >>]
    /\ autoPc = "idle"
    /\ autoRet = "none"
    /\ msgSendCalls = 0
    /\ monPc = "idle"
    /\ monRet = "none"
    /\ sleepClock = 0
    /\ hbOk = 0
    /\ hbFail = 0
    /\ hbGapOk = TRUE
    /\ sndPc = "off"
    /\ sndLeft = 0
    /\ lateSends = 0

MsgIds == 1..MaxMsgs
Peers == {"peer_a", "peer_b"}
\* sync_status: 0 pending, 1 sent, 2 delivered
Pending == 0
Sent == 1
Delivered == 2
Statuses == {Pending, Sent, Delivered}
\* two timestamps give ties as well as both orders of insertion
Rows == [peer_id : Peers, timestamp : 1..2, sync_status : Statuses]

\* what one send_func(msg) call can do, by the kind of send_func passed
Outcomes(send_func) ==
    CASE send_func = "always_true" -> {"true"}
      [] send_func = "always_false" -> {"false"}
      [] OTHER -> {"true", "false", "raise"}

SeqRange(q) == {q[i] : i \in 1..Len(q)}

\* mutant of PendingIds: the WHERE clause lost its peer_id test
PendingIds_AnyPeer(table, peer) ==
    {m \in DOMAIN table : table[m].sync_status = 0}

\* get_pending_messages_for_peer (172-174): SELECT ... WHERE peer_id = ? AND
\* sync_status = 0
PendingIds(table, peer) ==
    {m \in DOMAIN table :
        table[m].peer_id = peer /\ table[m].sync_status = Pending}

\* mutant of PendingLists: the query lost its ORDER BY
PendingLists_Unordered(table, peer) ==
    {q \in [1..Cardinality(PendingIds(table, peer)) -> PendingIds(table, peer)] :
        SeqRange(q) = PendingIds(table, peer)}

\* ... ORDER BY timestamp ASC: every order of the selected rows that is
\* ascending in timestamp (SQL fixes no order among equal timestamps)
PendingLists(table, peer) ==
    {q \in [1..Cardinality(PendingIds(table, peer)) -> PendingIds(table, peer)] :
        /\ SeqRange(q) = PendingIds(table, peer)
        /\ \A i, j \in DOMAIN q :
              i < j => table[q[i]].timestamp <= table[q[j]].timestamp}

\* update_message_status (169-170): UPDATE messages SET sync_status = ?
\* WHERE message_id = ?
UpdateMessageStatus(table, id, status) ==
    [table EXCEPT ![id].sync_status = status]

InitRetry ==
    /\ ExtIdle
    /\ P2PIdle
    /\ StatusIdle
    /\ TorIdle
    /\ BootIdle
    /\ msgs \in [MsgIds -> Rows]
    /\ msgs0 = msgs
    /\ rArgs \in [peer_id : {"peer_a"}, max_retries : 0..MaxRetries,
                  send_func : {"always_true", "always_false", "varying"}]
    /\ rPc = "start"
    /\ pending = << >>
    /\ rIdx = 0
    /\ retries = 0
    /\ backoff = 0
    /\ calls = [m \in MsgIds |-> 0]
    /\ okCalls = [m \in MsgIds |-> 0]
    /\ sleeps = [m \in MsgIds |-> << >>]
    /\ reported = {}
    /\ callNo = 1
    /\ sendLog = << >>
    /\ sentLog = << >>

\* line 179: pending = self.get_pending_messages_for_peer(peer_id)
RetryFetch ==
    /\ rPc = "start"
    /\ pending' \in PendingLists(msgs, rArgs.peer_id)
    /\ rIdx' = 0
    /\ rPc' = "for"
    /\ UNCHANGED <<msgs, msgs0, rArgs, retries, backoff, calls, okCalls,
                   sleeps, reported, callNo, sendLog, sentLog>>
    /\ UNCHANGED nonRetryVars

\* lines 180-182: for msg in pending: retries = 0; backoff = 1; the call
\* returns when the list is exhausted
RetryNextMsg ==
    /\ rPc = "for"
    /\ IF rIdx < Len(pending)
       THEN /\ rIdx' = rIdx + 1
            /\ retries' = 0
            /\ backoff' = 1
            /\ rPc' = "while"
       ELSE /\ rPc' = "done"
            /\ UNCHANGED <<rIdx, retries, backoff>>
    /\ UNCHANGED <<msgs, msgs0, rArgs, pending, calls, okCalls, sleeps, reported,
                   callNo, sendLog, sentLog>>
    /\ UNCHANGED nonRetryVars

\* mutant of LoopContinues: off by one
LoopContinues_OffByOne(r, max_retries) == r <= max_retries

\* line 183: while retries < max_retries
LoopContinues(r, max_retries) == r < max_retries

\* mutant of StatusAfterSend: the row is marked sent whatever send_func said
StatusAfterSend_Always(success, old) == Sent

\* mutant of StatusAfterSend: a successful retry marks the row delivered
StatusAfterSend_Delivered(success, old) == IF success THEN Delivered ELSE old

\* lines 185-186: the row's status after send_func returned success
StatusAfterSend(success, old) == IF success THEN Sent ELSE old

\* mutant of NextBackoff: the backoff is never doubled
NextBackoff_Constant(b) == b

\* line 190: backoff *= 2
NextBackoff(b) == b * 2

\* lines 183-191: one pass of the while loop: call send_func(msg); on
\* success mark the row sent and break; otherwise sleep(backoff), double
\* backoff, count the retry; an exception of send_func leaves the call
RetryAttempt ==
    /\ rPc = "while"
    /\ LoopContinues(retries, rArgs.max_retries)
    /\ LET m == pending[rIdx] IN
       \E o \in Outcomes(rArgs.send_func) :
        /\ calls' = [calls EXCEPT ![m] = @ + 1]
        /\ okCalls' = [okCalls EXCEPT ![m] = IF o = "true" THEN @ + 1 ELSE @]
        /\ msgs' = UpdateMessageStatus(msgs, m,
                        StatusAfterSend(o = "true", msgs[m].sync_status))
        /\ sleeps' = [sleeps EXCEPT ![m] = IF o = "false" THEN Append(@, backoff) ELSE @]
        /\ backoff' = IF o = "false" THEN NextBackoff(backoff) ELSE backoff
        /\ retries' = IF o = "false" THEN retries + 1 ELSE retries
        /\ rPc' = CASE o = "true" -> "break"
                    [] o = "false" -> "while"
                    [] OTHER -> "raised"
        /\ sendLog' = Append(sendLog, m)
        /\ sentLog' = IF o = "true" THEN Append(sentLog, <<callNo, m>>) ELSE sentLog
        /\ transmitted' = IF o = "true" THEN transmitted \cup {m} ELSE transmitted
        /\ written' = IF o = "true" THEN written \cup {<<"retry", m>>} ELSE written
    /\ UNCHANGED <<msgs0, rArgs, pending, rIdx, reported, callNo>>
    /\ UNCHANGED <<nonMsgVars, bgPc, bgPending, bgIdx, activeConns, timers, acked>>

\* lines 192-193: after the loop (ended by break or by its condition):
\* if retries == max_retries: print the failure of this message
RetryAfterLoop ==
    /\ \/ rPc = "break"
       \/ rPc = "while" /\ ~LoopContinues(retries, rArgs.max_retries)
    /\ reported' = IF retries = rArgs.max_retries
                   THEN reported \cup {pending[rIdx]} ELSE reported
    /\ rPc' = "for"
    /\ UNCHANGED <<msgs, msgs0, rArgs, pending, rIdx, retries, backoff, calls,
                   okCalls, sleeps, callNo, sendLog, sentLog>>
    /\ UNCHANGED nonRetryVars

\* connect_to_peer (177-206) runs again for the same peer (a reconnect): the
\* next retry_pending_messages call, with the same arguments, starts from
\* the table as it is now
RetryCallAgain ==
    /\ rPc = "done"
    /\ callNo < MaxCalls
    /\ callNo' = callNo + 1
    /\ msgs0' = msgs
    /\ rPc' = "start"
    /\ pending' = << >>
    /\ rIdx' = 0
    /\ retries' = 0
    /\ backoff' = 0
    /\ calls' = [m \in MsgIds |-> 0]
    /\ okCalls' = [m \in MsgIds |-> 0]
    /\ sleeps' = [m \in MsgIds |-> << >>]
    /\ reported' = {}
    /\ sendLog' = << >>
    /\ UNCHANGED <<msgs, rArgs, sentLog>>
    /\ UNCHANGED nonRetryVars

NextRetry ==
    \/ RetryFetch
    \/ RetryNextMsg
    \/ RetryAttempt
    \/ RetryAfterLoop

SpecRetry == InitRetry /\ [][NextRetry]_vars

\* A sequence of retry_pending_messages calls for one peer, over a table
\* that holds only that peer's rows.
SeqRows == [peer_id : {"peer_a"}, timestamp : 1..2, sync_status : Statuses]

InitRetrySeq ==
    /\ ExtIdle
    /\ P2PIdle
    /\ StatusIdle
    /\ TorIdle
    /\ BootIdle
    /\ msgs \in [MsgIds -> SeqRows]
    /\ msgs0 = msgs
    /\ rArgs \in [peer_id : {"peer_a"}, max_retries : 0..MaxRetries,
                  send_func : {"always_true", "always_false", "varying"}]
    /\ rPc = "start"
    /\ pending = << >>
    /\ rIdx = 0
    /\ retries = 0
    /\ backoff = 0
    /\ calls = [m \in MsgIds |-> 0]
    /\ okCalls = [m \in MsgIds |-> 0]
    /\ sleeps = [m \in MsgIds |-> << >>]
    /\ reported = {}
    /\ callNo = 1
    /\ sendLog = << >>
    /\ sentLog = << >>

NextRetrySeq ==
    \/ RetryFetch
    \/ RetryNextMsg
    \/ RetryAttempt
    \/ RetryAfterLoop
    \/ RetryCallAgain

SpecRetrySeq == InitRetrySeq /\ [][NextRetrySeq]_vars

---------------------------------------------------------------------------
(* The writers of messages.sync_status running side by side: the retry of   *)
(* connect_to_peer, MessageBackendThread._process_pending_messages, the GUI *)
(* timer that calls mark_message_sent, and handle_client receiving ACKs.    *)

StatusMsgIds == 1..MaxStatusMsgs

\* tables as MainWindow.send_message fills them (main_ui.py 718, 736-742):
\* one pending row per message, stamped in the order of sending
NewTables ==
    {t \in [StatusMsgIds -> [peer_id : Peers, timestamp : StatusMsgIds,
                              sync_status : {Pending}]] :
        \A m \in StatusMsgIds : t[m].timestamp = m}

InitStatus ==
    /\ ExtIdle
    /\ P2PIdle
    /\ TorIdle
    /\ BootIdle
    /\ msgs \in NewTables
    /\ msgs0 = msgs
    \* connect_to_peer line 202: retry_pending_messages(peer_id, send_func);
    \* send_func returns True after send_message, which never raises
    /\ rArgs = [peer_id |-> "peer_a", max_retries |-> DefaultMaxRetries,
                send_func |-> "always_true"]
    /\ rPc = "start"
    /\ pending = << >>
    /\ rIdx = 0
    /\ retries = 0
    /\ backoff = 0
    /\ calls = [m \in StatusMsgIds |-> 0]
    /\ okCalls = [m \in StatusMsgIds |-> 0]
    /\ sleeps = [m \in StatusMsgIds |-> << >>]
    /\ reported = {}
    /\ callNo = 1
    /\ sendLog = << >>
    /\ sentLog = << >>
    /\ bgPc = "fetch"
    /\ bgPending = << >>
    /\ bgIdx = 0
    \* the peers connect_peer (main_ui.py 196-211) was called for
    /\ activeConns \in SUBSET Peers
    \* every row was stored by send_message, which armed its timer (line 751)
    /\ timers = StatusMsgIds
    /\ transmitted = {}
    /\ acked = {}
    /\ written = {}

\* list_pending_messages (166-167): SELECT ... WHERE sync_status = 0 ORDER BY
\* timestamp ASC, the rows of every peer
AllPendingIds(table) == {m \in DOMAIN table : table[m].sync_status = Pending}

AllPendingLists(table) ==
    {q \in [1..Cardinality(AllPendingIds(table)) -> AllPendingIds(table)] :
        /\ SeqRange(q) = AllPendingIds(table)
        /\ \A i, j \in DOMAIN q :
              i < j => table[q[i]].timestamp <= table[q[j]].timestamp}

\* main_ui.py 120: pending = self.db.list_pending_messages()
BgFetch ==
    /\ bgPc = "fetch"
    /\ bgPending' \in AllPendingLists(msgs)
    /\ bgIdx' = 0
    /\ bgPc' = "for"
    /\ UNCHANGED <<activeConns, timers, transmitted, acked, written>>
    /\ UNCHANGED <<nonMsgVars, retryVars>>

\* main_ui.py 131: the status the backend writes after send_message
BgStatus == Sent

\* main_ui.py 121-133: one pass of the for loop: a row of a peer with an
\* active connection is sent (send_message swallows a failing send) and
\* marked sent; the other rows are skipped; after the last row the pass ends
BgSend ==
    /\ bgPc = "for"
    /\ IF bgIdx < Len(bgPending)
       THEN LET m == bgPending[bgIdx + 1] IN
            /\ bgIdx' = bgIdx + 1
            /\ UNCHANGED bgPc
            /\ IF msgs[m].peer_id \in activeConns
               THEN /\ \E ok \in BOOLEAN :
                         /\ transmitted' = IF ok THEN transmitted \cup {m}
                                           ELSE transmitted
                         /\ written' = IF ok THEN written \cup {<<"backend", m>>}
                                       ELSE written
                    /\ msgs' = UpdateMessageStatus(msgs, m, BgStatus)
               ELSE UNCHANGED <<transmitted, written, msgs>>
       ELSE /\ bgPc' = "monitor"
            /\ UNCHANGED <<bgIdx, transmitted, written, msgs>>
    /\ UNCHANGED <<bgPending, activeConns, timers, acked>>
    /\ UNCHANGED <<msgs0, rArgs, rPc, pending, rIdx, retries, backoff, calls,
                   okCalls, sleeps, reported, callNo, sendLog, sentLog>>
    /\ UNCHANGED nonMsgVars

\* main_ui.py 145-184, 114: _monitor_connections drops every connection
\* whose heartbeat send raises; the loop sleeps and starts its next pass
BgMonitor ==
    /\ bgPc = "monitor"
    /\ activeConns' \in SUBSET activeConns
    /\ bgPc' = "fetch"
    /\ UNCHANGED <<bgPending, bgIdx, timers, transmitted, acked, written>>
    /\ UNCHANGED <<nonMsgVars, retryVars>>

\* main_ui.py 757: the status mark_message_sent writes
MarkSentStatus == Sent

\* main_ui.py 751-757: the single-shot timer armed by send_message fires
\* and mark_message_sent writes the status, whatever it was
TimerFire ==
    /\ \E m \in timers :
        /\ msgs' = UpdateMessageStatus(msgs, m, MarkSentStatus)
        /\ timers' = timers \ {m}
    /\ UNCHANGED <<bgPc, bgPending, bgIdx, activeConns, transmitted, acked, written>>
    /\ UNCHANGED <<msgs0, rArgs, rPc, pending, rIdx, retries, backoff, calls,
                   okCalls, sleeps, reported, callNo, sendLog, sentLog>>
    /\ UNCHANGED nonMsgVars

\* connection_manager.py 284-285 and mark_message_delivered (195-197): the
\* peer's ACK {status: 'received', message_id} for a message it was sent
\* arrives and the row is marked delivered
AckReceived ==
    /\ bgPc # "off"
    /\ \E m \in transmitted \ acked :
        /\ msgs' = UpdateMessageStatus(msgs, m, Delivered)
        /\ acked' = acked \cup {m}
    /\ UNCHANGED <<bgPc, bgPending, bgIdx, activeConns, timers, transmitted,
                   written>>
    /\ UNCHANGED <<msgs0, rArgs, rPc, pending, rIdx, retries, backoff, calls,
                   okCalls, sleeps, reported, callNo, sendLog, sentLog>>
    /\ UNCHANGED nonMsgVars

NextStatus ==
    \/ RetryFetch
    \/ RetryNextMsg
    \/ RetryAttempt
    \/ RetryAfterLoop
    \/ BgFetch
    \/ BgSend
    \/ BgMonitor
    \/ TimerFire
    \/ AckReceived

SpecStatus == InitStatus /\ [][NextStatus]_vars

---------------------------------------------------------------------------
(* TorManager (utils/tor_manager.py), driven from one thread: start_tor,     *)
(* create_ephemeral_onion_service, the GUI's rotate_onion_address, stop_tor. *)

InitTor ==
    /\ ExtIdle
    /\ P2PIdle
    /\ RetryIdle
    /\ StatusIdle
    /\ BootIdle
    /\ TorFresh
    /\ startPc = "idle"

\* no TorManager call is running
TorQuiet == startPc \in {"idle", "returned", "raised"}

\* lines 25-31: subprocess.Popen(tor_cmd); a missing executable raises out
\* of start_tor before tor_process is assigned
StartSpawn ==
    /\ TorQuiet
    /\ torProc = "none"
    /\ starts < MaxStarts
    /\ starts' = starts + 1
    /\ attempt' = 0
    /\ tried' = 0
    /\ okAttempts' = 0
    /\ lastOp' = [NoOp EXCEPT !.op = "start"]
    /\ \E spawned \in BOOLEAN :
        IF spawned
        THEN /\ torProc' = "running"
             /\ alive' = alive + 1
             /\ startPc' = "loop"
        ELSE /\ startPc' = "raised"
             /\ UNCHANGED <<torProc, alive>>
    /\ UNCHANGED <<torCtl, circuit_cache, services, nextSid, retAddrs, createdFor,
                   rotatedOld>>
    /\ UNCHANGED nonTorVars

\* mutant of LastAttempt: the last failure is swallowed like the others
LastAttempt_Never(a) == FALSE

\* line 41: if attempt == max_attempts - 1
LastAttempt(a) == a = MaxAttempts - 1

\* lines 35-43: one pass of the loop: Controller.from_port, authenticate,
\* return on success; on an exception raise RuntimeError at the last
\* attempt, else sleep 0.5 s and go on; range(max_attempts) exhausted
\* would fall out of the loop and return
StartAttempt ==
    /\ startPc = "loop"
    /\ tried' = tried + 1
    /\ \E outcome \in {"ok", "connect_failed", "auth_failed"} :
        /\ torCtl' = CASE outcome = "ok" -> "auth"
                        [] outcome = "auth_failed" -> "unauth"
                        [] OTHER -> torCtl
        /\ okAttempts' = IF outcome = "ok" THEN okAttempts + 1 ELSE okAttempts
        /\ IF outcome = "ok"
           THEN startPc' = "returned" /\ UNCHANGED attempt
           ELSE IF LastAttempt(attempt)
           THEN startPc' = "raised" /\ UNCHANGED attempt
           ELSE IF attempt + 1 < MaxAttempts
           THEN startPc' = "loop" /\ attempt' = attempt + 1
           ELSE startPc' = "returned" /\ UNCHANGED attempt
    /\ UNCHANGED <<torProc, alive, circuit_cache, services, nextSid, starts, lastOp,
                   retAddrs, createdFor, rotatedOld>>
    /\ UNCHANGED nonTorVars

\* mutant of CacheHit: the cache is never consulted
CacheHit_Never(k, cache) == FALSE

\* line 49: if peer_id and peer_id in self.circuit_cache
CacheHit(k, cache) == k # "none" /\ cache[k] # 0

\* lines 57-58: if peer_id: self.circuit_cache[peer_id] = result.service_id
CacheAfterCreate(k, cache, sid) ==
    IF k # "none" THEN [cache EXCEPT ![k] = sid] ELSE cache

\* lines 45-59: create_ephemeral_onion_service(port, peer_id=k)
Create(k) ==
    /\ TorQuiet
    /\ IF torCtl = "none"
       THEN \* lines 46-47: raise RuntimeError
            /\ lastOp' = [NoOp EXCEPT !.op = "create", !.key = k, !.raised = TRUE]
            /\ UNCHANGED <<circuit_cache, services, nextSid, retAddrs, createdFor>>
       ELSE IF CacheHit(k, circuit_cache)
       THEN \* lines 50-53: return the cached id + '.onion', None
            /\ lastOp' = [NoOp EXCEPT !.op = "create", !.key = k,
                                      !.sid = circuit_cache[k], !.cached = TRUE]
            /\ retAddrs' = [retAddrs EXCEPT ![k] = @ \cup {circuit_cache[k]}]
            /\ UNCHANGED <<circuit_cache, services, nextSid, createdFor>>
       ELSE \* lines 55-59: the controller creates a service with a fresh
            \* id, or raises (always when it never authenticated)
            \E ok \in BOOLEAN :
                /\ ok => (torCtl = "auth" /\ nextSid < MaxServices)
                /\ IF ok
                   THEN /\ nextSid' = nextSid + 1
                        /\ services' = services \cup {nextSid + 1}
                        /\ circuit_cache' = CacheAfterCreate(k, circuit_cache, nextSid + 1)
                        /\ createdFor' = [createdFor EXCEPT ![k] = @ + 1]
                        /\ retAddrs' = [retAddrs EXCEPT ![k] = @ \cup {nextSid + 1}]
                        /\ lastOp' = [NoOp EXCEPT !.op = "create", !.key = k,
                                                  !.sid = nextSid + 1]
                   ELSE /\ lastOp' = [NoOp EXCEPT !.op = "create", !.key = k,
                                                  !.raised = TRUE]
                        /\ UNCHANGED <<circuit_cache, services, nextSid, retAddrs,
                                       createdFor>>
    /\ UNCHANGED <<torCtl, torProc, alive, starts, startPc, attempt, tried,
                   okAttempts>>
    /\ UNCHANGED nonTorVars

CreateService ==
    /\ \E k \in KeyArgs : Create(k)
    /\ UNCHANGED rotatedOld

\* main_ui.py 1046-1061: rotate_onion_address calls
\* create_ephemeral_onion_service(12345) and shows the new address; it
\* removes no service and no cache record
RotateOnion ==
    /\ starts > 0
    /\ Create("none")
    /\ rotatedOld' = rotatedOld \cup services

\* mutant of CaughtByStop: only SocketClosed is caught
CaughtByStop_OnlySocketClosed(exc) == exc = "SocketClosed"

\* lines 74-77: except SocketClosed: pass / except Exception: print
CaughtByStop(exc) == exc \in {"SocketClosed", "Exception"}

\* lines 68-93: stop_tor.  With a controller: signal(SHUTDOWN) and close(),
\* exceptions caught, controller = None in the finally.  With a process:
\* wait up to 5 s for it to exit, kill it and reap it otherwise, close its
\* pipes, tor_process = None.
StopTor ==
    /\ TorQuiet
    /\ \E exc \in {"ok", "SocketClosed", "Exception"}, graceful \in BOOLEAN,
          w \in 0..GraceSeconds :
        \* nothing is signalled without a controller; an unauthenticated
        \* controller rejects the signal
        /\ torCtl = "none" => exc = "ok"
        /\ torCtl = "unauth" => exc # "ok"
        \* tor exits by itself only when it was told to
        /\ graceful => (torCtl = "auth" /\ exc = "ok")
        /\ ~graceful => w = GraceSeconds
        /\ torProc = "none" => (~graceful /\ w = GraceSeconds)
        /\ LET raisedOut == exc # "ok" /\ ~CaughtByStop(exc)
               procDone == ~raisedOut /\ torProc # "none"
           IN /\ torCtl' = "none"
              /\ torProc' = IF raisedOut THEN torProc ELSE "none"
              /\ alive' = IF procDone THEN alive - 1 ELSE alive
              /\ services' = IF torCtl # "none" \/ procDone THEN {} ELSE services
              /\ lastOp' = [NoOp EXCEPT !.op = "stop", !.raised = raisedOut,
                                        !.waited = IF procDone THEN w ELSE 0,
                                        !.noop = (torCtl = "none" /\ torProc = "none")]
    /\ UNCHANGED <<circuit_cache, nextSid, starts, startPc, attempt, tried,
                   okAttempts, retAddrs, createdFor, rotatedOld>>
    /\ UNCHANGED nonTorVars

NextTor ==
    \/ StartSpawn
    \/ StartAttempt
    \/ CreateService
    \/ RotateOnion
    \/ StopTor

SpecTor == InitTor /\ [][NextTor]_vars

---------------------------------------------------------------------------
(* TorManager.wait_for_tor_bootstrap (src/tor_manager.py, the class the GUI  *)
(* and StartupWorker use)                                                    *)

BootPhases == {0, 50, 100}

InitBoot ==
    /\ ExtIdle
    /\ P2PIdle
    /\ RetryIdle
    /\ StatusIdle
    /\ TorIdle
    /\ bootPc = "check"
    /\ bootTimeout \in 0..MaxBootTimeout
    \* self.controller is None until start_tor connected (lines 16, 33)
    /\ bootCtl \in {"none", "auth"}
    \* tor was just spawned
    /\ bootPhase = 0
    /\ bootClock = 0
    /\ pollClock = 0
    /\ bootRet = "none"
    /\ bootReturnClock = -1
    /\ bootSaw100 = FALSE

\* line 59: while time.time() - start < timeout
LoopGoesOn(elapsed, timeout) == elapsed < timeout * TicksPerSecond

\* lines 59, 67: the loop condition; return False when it fails
BootCheck ==
    /\ bootPc = "check"
    /\ IF LoopGoesOn(bootClock, bootTimeout)
       THEN /\ bootPc' = "poll"
            /\ UNCHANGED <<bootRet, bootReturnClock>>
       ELSE /\ bootPc' = "returned"
            /\ bootRet' = "False"
            /\ bootReturnClock' = bootClock
    /\ pollClock' = 0
    /\ UNCHANGED <<bootTimeout, bootCtl, bootPhase, bootClock, bootSaw100>>
    /\ UNCHANGED nonBootVars

\* line 61: half a second passes while controller.get_info, which takes no
\* timeout, waits for tor's reply
BootPollBlocks ==
    /\ bootPc = "poll"
    /\ bootCtl = "auth"
    /\ pollClock < MaxPollBlock
    /\ pollClock' = pollClock + 1
    /\ bootClock' = bootClock + 1
    /\ UNCHANGED <<bootPc, bootTimeout, bootCtl, bootPhase, bootRet,
                   bootReturnClock, bootSaw100>>
    /\ UNCHANGED nonBootVars

\* lines 64-65: except Exception: pass
PollCaught(raised) == raised

\* lines 60-65: status = self.controller.get_info(...); return True when it
\* names 100%; an exception (self.controller is None, the controller
\* socket closed) is swallowed
BootPoll ==
    /\ bootPc = "poll"
    /\ \E raised \in BOOLEAN :
        /\ bootCtl = "none" => raised
        /\ IF raised
           THEN IF PollCaught(raised)
                THEN /\ bootPc' = "sleep"
                     /\ UNCHANGED <<bootRet, bootReturnClock, bootSaw100>>
                ELSE /\ bootPc' = "returned"
                     /\ bootRet' = "raised"
                     /\ bootReturnClock' = bootClock
                     /\ UNCHANGED bootSaw100
           ELSE IF bootPhase = 100
                THEN /\ bootPc' = "returned"
                     /\ bootRet' = "True"
                     /\ bootReturnClock' = bootClock
                     /\ bootSaw100' = TRUE
                ELSE /\ bootPc' = "sleep"
                     /\ UNCHANGED <<bootRet, bootReturnClock, bootSaw100>>
    /\ UNCHANGED <<bootTimeout, bootCtl, bootPhase, bootClock, pollClock>>
    /\ UNCHANGED nonBootVars

\* line 66: time.sleep(0.5)
BootSleep ==
    /\ bootPc = "sleep"
    /\ bootClock' = bootClock + 1
    /\ bootPc' = "check"
    /\ UNCHANGED <<bootTimeout, bootCtl, bootPhase, pollClock, bootRet,
                   bootReturnClock, bootSaw100>>
    /\ UNCHANGED nonBootVars

\* the tor process makes progress with its bootstrap meanwhile
BootProgress ==
    /\ bootPc \in {"check", "poll", "sleep"}
    /\ \E ph \in BootPhases : ph > bootPhase /\ bootPhase' = ph
    /\ UNCHANGED <<bootPc, bootTimeout, bootCtl, bootClock, pollClock, bootRet,
                   bootReturnClock, bootSaw100>>
    /\ UNCHANGED nonBootVars

NextBoot ==
    \/ BootCheck
    \/ BootPollBlocks
    \/ BootPoll
    \/ BootSleep
    \/ BootProgress

SpecBoot == InitBoot /\ [][NextBoot]_vars

---------------------------------------------------------------------------
(* Claims about attempt_direct_p2p *)

Count(q, x) == Cardinality({i \in DOMAIN q : q[i] = x})

DirectResult == [channel |-> "direct", socket |-> DirectSock]

InAttempt == inp.entry \in {"attempt_direct_p2p", "send_message_auto"}

NatLacksIpOrPort ==
    inp.ip \in {"absent", "empty"} \/ inp.port \in {"absent", "empty"}

\* C1: a call of attempt_direct_p2p whose peer_nat_info lacks external_ip or
\* external_port (absent or empty) never invokes _connect_to_peer, opens no
\* socket, and returns {'channel': 'tor', 'socket': tor_socket}.
C1_MissingNatUsesFallback ==
    (InAttempt /\ NatLacksIpOrPort) =>
        /\ connectCalls = 0
        /\ sockState[DirectSock] = "unused"
        /\ callPc = "returned" => result = TorResult

C1_Witness ==
    /\ inp.entry = "attempt_direct_p2p"
    /\ inp.ip = "addr"
    /\ inp.port = "empty"
    /\ callPc = "returned"
    /\ result = TorResult

\* C2: when the direct attempt fails (direct_connect returned None) the call
\* returns the tor fallback and the socket the attempt connected has been
\* closed by the time the call returns.
C2_FailedAttemptLeavesNoOpenSocket ==
    (callPc = "returned" /\ workerRet = "None") =>
        /\ result = TorResult
        /\ sockState[DirectSock] # "connected"

\* C3: channel 'direct' is reported only after the rendezvous envelope was
\* written by a successful sendall on the newly connected socket, before
\* anything else is written on it.
C3_DirectOnlyAfterRendezvous ==
    result.channel = "direct" =>
        /\ result.socket = DirectSock
        /\ connectCalls = 1
        /\ Len(wire[DirectSock]) >= 1
        /\ wire[DirectSock][1] = "rendezvous"

C3_Witness ==
    /\ callPc = "returned"
    /\ result.channel = "direct"
    /\ wire[DirectSock] = <<"rendezvous">>

\* C4: a returned call yields exactly one of the two channels, label and
\* socket agree, and it is the direct one exactly when the connect and the
\* rendezvous send both succeeded before the timeout fired.
C4_ExactlyOneChannel ==
    (InAttempt /\ callPc = "returned") =>
        /\ result \in {DirectResult, TorResult}
        /\ result = DirectResult <=>
              (Count(wire[DirectSock], "rendezvous") = 1 /\ ~timedOut)

C4_Witness ==
    /\ callPc = "returned"
    /\ result = TorResult
    /\ timedOut
    /\ Count(wire[DirectSock], "rendezvous") = 1

\* C5: the call never blocks past its timeout: it has returned by the time
\* timeout seconds have passed, whether or not the connect task finished.
C5_ReturnsWithinTimeout ==
    callPc = "returned" => returnClock <= inp.timeout

---------------------------------------------------------------------------
(* Claims about monitor_connection_health and send_message_auto *)

\* C6: monitor_connection_health has returned exactly when a heartbeat send
\* has failed; until then every heartbeat after the first follows a full
\* check_interval sleep; it returns fallback_socket on the first failing
\* send and sends nothing on the failed socket afterwards.
C6_MonitorReturnsOnFirstFailure ==
    /\ (monPc = "returned") <=> (hbFail >= 1)
    /\ hbFail <= 1
    /\ monPc = "returned" => monRet = TorSock
    /\ monPc # "returned" => monRet = "none"
    /\ hbGapOk
    /\ Count(wire[DirectSock], "heartbeat") = hbOk

C6_Witness ==
    /\ inp.entry = "monitor_connection_health"
    /\ monPc = "returned"
    /\ hbOk = MaxHeartbeats
    /\ monRet = TorSock

\* C7: once the health monitor has detected the heartbeat failure, no thread
\* writes a message for that peer on a direct socket any more.
C7_NoDirectSendAfterFailover ==
    lateSends = 0

\* C8: the kind send_message_auto returns is the kind of the channel that
\* carried the message, the message was transmitted exactly once, on that
\* channel; with absent NAT info it returns 'tor', the message went once
\* over the fallback socket and no health monitor was started.
C8_ReportedKindCarriedMessage ==
    autoPc = "returned" =>
        /\ autoRet = result.channel
        /\ Count(wire[result.socket], "message") = 1
        /\ \A s \in Socks \ {result.socket} : Count(wire[s], "message") = 0
        /\ NatLacksIpOrPort =>
              /\ autoRet = "tor"
              /\ wire[TorSock] = <<"message">>
              /\ monPc = "idle"

---------------------------------------------------------------------------
(* Claims about retry_pending_messages *)

\* the rows that were pending for peer_id when the call started
Pending0 ==
    {m \in DOMAIN msgs0 :
        msgs0[m].peer_id = rArgs.peer_id /\ msgs0[m].sync_status = Pending}

\* a row of Pending0 is sent iff one of its at most max_retries send_func
\* attempts reported success, and is still pending otherwise
SentIffReportedSuccess ==
    \A m \in Pending0 :
        /\ calls[m] <= rArgs.max_retries
        /\ msgs[m].sync_status = (IF okCalls[m] >= 1 THEN Sent ELSE Pending)

AllSentWithOneCallEach ==
    \A m \in Pending0 : msgs[m].sync_status = Sent /\ calls[m] = 1

\* C9 as stated: after the call returns each row of Pending0 is Sent iff an
\* attempt reported success and Pending otherwise, and with an
\* always-succeeding send_func all N rows are Sent after N invocations.
C9_Original ==
    rPc = "done" =>
        /\ SentIffReportedSuccess
        /\ rArgs.send_func = "always_true" => AllSentWithOneCallEach

\* C9 amended: the same, the always-succeeding case for max_retries >= 1
\* (with max_retries = 0 send_func is never called and every row stays
\* Pending).
C9_Amended ==
    rPc = "done" =>
        /\ SentIffReportedSuccess
        /\ (rArgs.send_func = "always_true" /\ rArgs.max_retries >= 1) =>
              AllSentWithOneCallEach
        /\ (rArgs.send_func = "always_true" /\ rArgs.max_retries = 0) =>
              \A m \in Pending0 : msgs[m].sync_status = Pending /\ calls[m] = 0

C9_Witness ==
    /\ rPc = "done"
    /\ rArgs.send_func = "always_true"
    /\ rArgs.max_retries >= 1
    /\ Cardinality(Pending0) >= 2
    /\ AllSentWithOneCallEach

\* C10: with an always-failing send_func the call never raises, and when it
\* has returned every row of Pending0 was attempted max_retries times, is
\* still Pending and has its failure reported.
C10_AlwaysFailingKeepsPending ==
    rArgs.send_func = "always_false" =>
        /\ rPc # "raised"
        /\ rPc = "done" =>
              \A m \in Pending0 :
                 /\ calls[m] = rArgs.max_retries
                 /\ msgs[m].sync_status = Pending
                 /\ m \in reported

C10_Witness ==
    /\ rPc = "done"
    /\ rArgs.send_func = "always_false"
    /\ rArgs.max_retries >= 2
    /\ Cardinality(Pending0) >= 2
    /\ \A m \in Pending0 : calls[m] = rArgs.max_retries

\* C11: the call touches only the rows that were pending for peer_id when it
\* started: every other row (another peer's, or one of peer_id that was
\* already Sent or Delivered) keeps its sync_status and is never passed to
\* send_func.
C11_OnlyPendingRowsOfPeerTouched ==
    rPc # "idle" =>
        \A m \in MsgIds \ Pending0 :
            /\ msgs[m].sync_status = msgs0[m].sync_status
            /\ calls[m] = 0
            /\ \A i \in DOMAIN sendLog : sendLog[i] # m

C11_Witness ==
    /\ rPc = "done"
    /\ \E m \in Pending0 : msgs[m].sync_status = Sent
    /\ \E m \in MsgIds : msgs0[m].peer_id # rArgs.peer_id /\ msgs0[m].sync_status = Pending
    /\ \E m \in MsgIds : msgs0[m].peer_id = rArgs.peer_id /\ msgs0[m].sync_status # Pending

\* send_func was called in ascending timestamp order, one message at a time
\* (all attempts on a message are consecutive)
SendsInTimestampOrder ==
    /\ \A i, j \in DOMAIN sendLog :
          i < j => msgs[sendLog[i]].timestamp <= msgs[sendLog[j]].timestamp
    /\ \A i \in 1..(Len(sendLog) - 1) :
          sendLog[i] # sendLog[i + 1] =>
              \A k \in (i + 1)..Len(sendLog) : sendLog[k] # sendLog[i]

\* C12 as stated: within a call send_func is invoked in ascending timestamp
\* order one message at a time, and over the sequence of calls for the peer
\* the rows become Sent in timestamp order.
C12_Original ==
    rPc \notin {"idle", "start"} =>
        /\ SendsInTimestampOrder
        /\ \A i, j \in DOMAIN sentLog :
              i < j => msgs[sentLog[i][2]].timestamp <= msgs[sentLog[j][2]].timestamp

\* C12 amended: the same, the order of becoming Sent only among the rows
\* marked within one call (a row whose attempts all failed stays Pending and
\* is marked by a later call, after rows with later timestamps).
C12_Amended ==
    rPc \notin {"idle", "start"} =>
        /\ SendsInTimestampOrder
        /\ \A i, j \in DOMAIN sentLog :
              (i < j /\ sentLog[i][1] = sentLog[j][1]) =>
                  msgs[sentLog[i][2]].timestamp <= msgs[sentLog[j][2]].timestamp

C12_Witness ==
    /\ rPc = "done"
    /\ Len(sentLog) >= 2
    /\ sentLog[1][1] = sentLog[2][1]
    /\ msgs[sentLog[1][2]].timestamp < msgs[sentLog[2][2]].timestamp
    /\ Len(sendLog) >= 3

---------------------------------------------------------------------------
(* Claims about the status of stored messages *)

\* C13: no step of any writer (retry, backend thread, GUI timer, ACK
\* handler) lowers the sync_status of a stored message.
C13_StatusNeverMovesBackward ==
    [][\A m \in DOMAIN msgs \cap DOMAIN msgs' :
          msgs'[m].sync_status >= msgs[m].sync_status]_vars

\* C14: a row is Delivered only if handle_client received an ACK naming it:
\* neither the retry, nor the backend thread, nor the GUI timer writes 2.
C14_DeliveredOnlyByAck ==
    \A m \in DOMAIN msgs : msgs[m].sync_status = Delivered => m \in acked

C14_Witness ==
    /\ bgPc # "off"
    /\ rPc = "done"
    /\ timers = {}
    /\ \E m \in DOMAIN msgs : msgs[m].sync_status = Delivered /\ m \in acked
    /\ \E m \in DOMAIN msgs : msgs[m].sync_status = Sent /\ m \notin acked

---------------------------------------------------------------------------
(* Claims about TorManager *)

\* C15: all calls of create_ephemeral_onion_service with one peer_id return
\* the same address and create one service on the controller; calls with
\* different peer_ids never return the same address.
C15_IdempotentPerScopeKey ==
    /\ \A k \in PeerKeys :
          /\ Cardinality(retAddrs[k]) <= 1
          /\ createdFor[k] <= 1
    /\ \A k1, k2 \in PeerKeys : k1 # k2 => retAddrs[k1] \cap retAddrs[k2] = {}

C15_Witness ==
    /\ lastOp.op = "create"
    /\ lastOp.cached
    /\ lastOp.key = "peer_a"
    /\ retAddrs["peer_a"] = {lastOp.sid}
    /\ createdFor["peer_a"] = 1
    /\ retAddrs["peer_b"] # {}

\* C16: a call that returns the cached address of its peer_id returns the
\* address of a service that is live on the running controller.
C16_CachedAddressIsLive ==
    (lastOp.op = "create" /\ lastOp.cached) => lastOp.sid \in services

\* C17: after a rotation no scope key is still cached with an address that
\* existed before the rotation, and a later call for a key does not return
\* such an address.
C17_RotationReplacesRecord ==
    /\ \A k \in PeerKeys : circuit_cache[k] \notin rotatedOld
    /\ (lastOp.op = "create" /\ lastOp.key \in PeerKeys /\ ~lastOp.raised) =>
          lastOp.sid \notin rotatedOld

\* C18: stop_tor never raises and leaves controller = None and tor_process =
\* None with the spawned process terminated after at most the grace period,
\* in every lifecycle state; called when both are already None it changes
\* nothing.
C18_StopSafeAndIdempotent ==
    /\ [](lastOp.op = "stop" =>
            /\ ~lastOp.raised
            /\ torCtl = "none"
            /\ torProc = "none"
            /\ alive = 0
            /\ lastOp.waited <= GraceSeconds)
    /\ [][(lastOp'.op = "stop" /\ torCtl = "none" /\ torProc = "none") =>
            /\ UNCHANGED <<torCtl, torProc, alive, circuit_cache, services>>
            /\ ~lastOp'.raised]_vars

C18_Witness ==
    /\ lastOp.op = "stop"
    /\ lastOp.noop
    /\ startPc = "raised"
    /\ tried = MaxAttempts

\* C19: start_tor makes at most 30 control-port attempts, has returned
\* exactly when one attempt succeeded (the first that did), and has raised
\* when the 30th failed (or when the process could not be spawned).
C19_StartTorBounded ==
    /\ tried <= MaxAttempts
    /\ okAttempts <= 1
    /\ startPc = "returned" => okAttempts = 1
    /\ startPc = "raised" => (okAttempts = 0 /\ tried \in {0, MaxAttempts})
    /\ startPc = "loop" => (okAttempts = 0 /\ tried < MaxAttempts)

C19_Witness ==
    /\ startPc = "raised"
    /\ tried = MaxAttempts
    /\ torProc = "running"

\* C20: wait_for_tor_bootstrap returns a boolean and never raises, True
\* only from a poll that reported 100%, False once the timeout has elapsed,
\* and it has returned by the time timeout seconds have passed.
C20_BootstrapWaitWithinTimeout ==
    /\ bootRet # "raised"
    /\ bootPc = "returned" =>
          /\ bootRet \in {"True", "False"}
          /\ bootRet = "True" <=> bootSaw100
          /\ bootRet = "False" => bootReturnClock >= bootTimeout * TicksPerSecond
          /\ bootReturnClock <= bootTimeout * TicksPerSecond

---------------------------------------------------------------------------
(* SpecTorConc: several threads call create_ephemeral_onion_service of one  *)
(* started TorManager (utils/tor_manager.py 45-59).  The method takes no    *)
(* lock; a thread can be preempted between any two of its statements and    *)
(* releases the interpreter while the controller request of line 55 waits   *)
(* for the publication of the service.                                      *)

\* the other TorManager variables, which no create call assigns
torRestVars == <<torCtl, torProc, alive, starts, startPc, attempt, tried,
                 okAttempts, lastOp, rotatedOld>>

\* the manager after a start_tor that connected at its first attempt
InitTorConc ==
    /\ P2PIdle
    /\ RetryIdle
    /\ StatusIdle
    /\ BootIdle
    /\ torCtl = "auth"
    /\ torProc = "running"
    /\ alive = 1
    /\ circuit_cache = [k \in PeerKeys |-> 0]
    /\ services = {}
    /\ nextSid = 0
    /\ starts = 1
    /\ startPc = "returned"
    /\ attempt = 0
    /\ tried = 1
    /\ okAttempts = 1
    /\ lastOp = NoOp
    /\ retAddrs = [k \in KeyArgs |-> {}]
    /\ createdFor = [k \in KeyArgs |-> 0]
    /\ rotatedOld = {}
    /\ thrPc = [t \in Threads |-> "idle"]
    /\ thrKey = [t \in Threads |-> "none"]
    /\ thrRet = [t \in Threads |-> 0]
    /\ thrSid = [t \in Threads |-> 0]
    /\ thrCalls = [t \in Threads |-> 0]
    /\ DiscIdle
    /\ LoopIdle
    /\ FileIdle
    /\ RdvIdle
    /\ LateIdle

RECURSIVE SumCalls(_, _)
\* calls made by the threads 1..n
SumCalls(c, n) == IF n = 0 THEN 0 ELSE c[n] + SumCalls(c, n - 1)

\* lines 45-47: the call is entered with a controller set
ThrCall(t) ==
    /\ thrPc[t] = "idle"
    /\ SumCalls(thrCalls, MaxThreads) < MaxConcCalls
    /\ torCtl # "none"
    /\ \E k \in KeyArgs : thrKey' = [thrKey EXCEPT ![t] = k]
    /\ thrCalls' = [thrCalls EXCEPT ![t] = @ + 1]
    /\ thrPc' = [thrPc EXCEPT ![t] = "lookup"]
    /\ UNCHANGED <<thrRet, thrSid, torVars, nonConcVars>>

\* lines 49-53: the cache lookup; a hit returns the cached id
ThrLookup(t) ==
    /\ thrPc[t] = "lookup"
    /\ IF CacheHit(thrKey[t], circuit_cache)
       THEN /\ thrRet' = [thrRet EXCEPT ![t] = circuit_cache[thrKey[t]]]
            /\ retAddrs' = [retAddrs EXCEPT ![thrKey[t]] = @ \cup {circuit_cache[thrKey[t]]}]
            /\ thrPc' = [thrPc EXCEPT ![t] = "idle"]
       ELSE /\ thrPc' = [thrPc EXCEPT ![t] = "request"]
            /\ UNCHANGED <<thrRet, retAddrs>>
    /\ UNCHANGED <<thrKey, thrSid, thrCalls, circuit_cache, services, nextSid,
                   createdFor, torRestVars, nonConcVars>>

\* line 55: controller.create_ephemeral_hidden_service(...,
\* await_publication=True) is called; the request is now in progress
ThrRequest(t) ==
    /\ thrPc[t] = "request"
    /\ thrPc' = [thrPc EXCEPT ![t] = "inflight"]
    /\ UNCHANGED <<thrKey, thrRet, thrSid, thrCalls, torVars, nonConcVars>>

\* line 55 returns: the controller created a service with a fresh id
ThrReply(t) ==
    /\ thrPc[t] = "inflight"
    /\ nextSid' = nextSid + 1
    /\ services' = services \cup {nextSid + 1}
    /\ createdFor' = [createdFor EXCEPT ![thrKey[t]] = @ + 1]
    /\ thrSid' = [thrSid EXCEPT ![t] = nextSid + 1]
    /\ thrPc' = [thrPc EXCEPT ![t] = "store"]
    /\ UNCHANGED <<thrKey, thrRet, thrCalls, circuit_cache, retAddrs,
                   torRestVars, nonConcVars>>

\* lines 56-59: the id is cached under the peer_id and returned
ThrStore(t) ==
    /\ thrPc[t] = "store"
    /\ circuit_cache' = CacheAfterCreate(thrKey[t], circuit_cache, thrSid[t])
    /\ thrRet' = [thrRet EXCEPT ![t] = thrSid[t]]
    /\ retAddrs' = [retAddrs EXCEPT ![thrKey[t]] = @ \cup {thrSid[t]}]
    /\ thrSid' = [thrSid EXCEPT ![t] = 0]
    /\ thrPc' = [thrPc EXCEPT ![t] = "idle"]
    /\ UNCHANGED <<thrKey, thrCalls, services, nextSid, createdFor,
                   torRestVars, nonConcVars>>

NextTorConc ==
    \/ \E t \in Threads : ThrCall(t)
    \/ \E t \in Threads : ThrLookup(t)
    \/ \E t \in Threads : ThrRequest(t)
    \/ \E t \in Threads : ThrReply(t)
    \/ \E t \in Threads : ThrStore(t)

SpecTorConc == InitTorConc /\ [][NextTorConc]_vars

\* C21: the controller calls of one TorManager are serialized: at most one
\* controller request is in progress at any time, and concurrent calls for
\* the same peer_id behave as sequential ones, that is one service is
\* created for the peer_id and every call for it returns that address.
C21_ControllerCallsSerialized ==
    /\ Cardinality({t \in Threads : thrPc[t] = "inflight"}) <= 1
    /\ \A k \in PeerKeys :
          /\ createdFor[k] <= 1
          /\ Cardinality(retAddrs[k]) <= 1

---------------------------------------------------------------------------
(* SpecBeacon: PeerDiscovery._handle_packet (peer/peer_discovery.py 47-64)  *)
(* on datagrams built by _build_beacon (39-45) and on altered, malformed    *)
(* and self-made ones, over a small peers table.                            *)
(*                                                                         *)
(* A datagram is what its bytes decode to.  outer says how far lines 49-51  *)
(* get with the package, payload.form how far lines 52-59 get with the      *)
(* payload; the other payload fields are the values of its JSON keys.  A    *)
(* signature is modelled by the key that made it and the payload bytes it   *)
(* was made over (RSA-PSS is taken as unforgeable); intact is FALSE once    *)
(* a byte of it was changed.                                                *)

OuterForms == {"ok", "not_utf8", "not_json", "no_payload_key", "no_signature_key",
               "payload_not_b64", "signature_not_b64"}
InnerForms == {"ok", "not_json", "no_public_key", "public_key_not_b64",
               "bad_pem", "no_peer_id", "no_timestamp"}

\* crypto_utils.py 112-121: sign_message(priv, data)
sign_message(k, data) == [signer |-> k, intact |-> TRUE, over |-> data]

\* mutant of verify_signature: every signature is accepted
verify_signature_AcceptAll(pub, data, sig) == TRUE

\* crypto_utils.py 124-137: verify_signature(pub, data, signature); pub.verify
\* raises InvalidSignature unless the signature was made by the private key
\* of pub over data, and every exception becomes False
verify_signature(pub, data, sig) ==
    sig.intact /\ sig.signer = pub /\ sig.over = data

\* lines 39-45: the beacon of a peer with key pair k at time ts; form "ok"
\* is _build_beacon's payload, the others are payloads a sender with a key
\* of its own can sign just as well
Craft(form, p, k, ts) ==
    LET payload == [form |-> form, peer_id |-> p, timestamp |-> ts,
                    public_key |-> k]
    IN [outer |-> "ok", payload |-> payload,
        signature |-> sign_message(k, payload)]

build_beacon(p, k, ts) == Craft("ok", p, k, ts)

Beacons ==
    {build_beacon(p, k, ts) : p \in PeerKeys, k \in Keys, ts \in 1..MaxBeaconTs}

OtherKey(k) == CHOOSE o \in Keys : o # k
OtherPeer(p) == CHOOSE o \in PeerKeys : o # p
OtherTs(ts) == IF ts = 1 THEN MaxBeaconTs ELSE 1

\* what somebody on the LAN can make of a beacon without the private key
Altered(b) ==
    {[b EXCEPT !.payload.peer_id = OtherPeer(@)],
     [b EXCEPT !.payload.timestamp = OtherTs(@)],
     [b EXCEPT !.payload.public_key = OtherKey(@)],
     [b EXCEPT !.signature.intact = FALSE],
     [b EXCEPT !.signature = sign_message(OtherKey(b.payload.public_key), b.payload)]}
    \cup {[b EXCEPT !.outer = f] : f \in OuterForms \ {"ok"}}

Datagrams ==
    Beacons
    \cup UNION {Altered(b) : b \in Beacons}
    \cup {Craft(f, p, k, ts) : f \in InnerForms, p \in PeerKeys, k \in Keys,
                               ts \in 1..MaxBeaconTs}

\* the peers table a PeerDiscovery starts with: a peer is unknown, known
\* with a key, or known without one
StoreRows ==
    {NoRow} \cup {[present |-> TRUE, public_key |-> k, last_seen |-> 0] :
                     k \in Keys \cup {"null"}}

InitBeacon ==
    /\ P2PIdle
    /\ RetryIdle
    /\ StatusIdle
    /\ TorIdle
    /\ BootIdle
    /\ ConcIdle
    /\ LoopIdle
    /\ FileIdle
    /\ RdvIdle
    /\ LateIdle
    /\ peerStore \in [PeerKeys -> StoreRows]
    /\ storeBefore = peerStore
    /\ pktCount = 0
    /\ lastPkt = NoPkt
    /\ lastOut = "none"
    /\ pktRaised = FALSE

\* lines 48-59: where _handle_packet stops with datagram d.  Lines 49-51
\* raise on a package that is no UTF-8, no JSON, lacks a key or holds no
\* base64; 52-55 on a payload that is no JSON, lacks public_key or holds
\* no PEM key; 56-57 return on a failed verification; 58-59 raise KeyError
HandleOutcome(d) ==
    IF d.outer # "ok" THEN "raised_package"
    ELSE IF d.payload.form \in {"not_json", "no_public_key",
                                "public_key_not_b64", "bad_pem"}
    THEN "raised_payload"
    ELSE IF ~verify_signature(d.payload.public_key, d.payload, d.signature)
    THEN "unverified"
    ELSE IF d.payload.form \in {"no_peer_id", "no_timestamp"}
    THEN "raised_field"
    ELSE "verified"

\* db_handler.py 127-129: INSERT OR IGNORE INTO peers (peer_id, nickname,
\* public_key, fingerprint); a row with the peer_id is left as it is
add_peer(store, p, k) ==
    IF store[p].present THEN store
    ELSE [store EXCEPT ![p] = [present |-> TRUE, public_key |-> k, last_seen |-> 0]]

\* db_handler.py 138-150: UPDATE peers SET last_seen = ? WHERE peer_id = ?
update_peer_status(store, p, ts) ==
    IF store[p].present THEN [store EXCEPT ![p].last_seen = ts] ELSE store

\* lines 63-64: except Exception: return
HandlerCatches(exc) ==
    exc \in {"raised_package", "raised_payload", "raised_field", "raised_db"}

\* lines 47-64: _handle_packet(data, addr) for a datagram of D.  The two
\* statements of lines 61-62 can each fail in the database (locked, closed
\* by stop())
HandlePacketFrom(D) ==
    /\ pktCount < MaxPackets
    /\ \E d \in D, dbFail \in {"none", "add_peer", "update_peer_status"} :
          LET out == HandleOutcome(d)
              added == add_peer(peerStore, d.payload.peer_id, d.payload.public_key)
              end == IF out # "verified" THEN out
                     ELSE IF dbFail # "none" THEN "raised_db" ELSE "stored"
          IN /\ out # "verified" => dbFail = "none"
             /\ lastPkt' = d
             /\ lastOut' = end
             /\ storeBefore' = peerStore
             /\ peerStore' =
                   IF out # "verified" \/ dbFail = "add_peer" THEN peerStore
                   ELSE IF dbFail = "update_peer_status" THEN added
                   ELSE update_peer_status(added, d.payload.peer_id,
                                           d.payload.timestamp)
             /\ pktRaised' =
                   (pktRaised \/ (end \notin {"unverified", "stored"}
                                  /\ ~HandlerCatches(end)))
    /\ pktCount' = pktCount + 1

HandlePacket ==
    /\ HandlePacketFrom(Datagrams)
    /\ UNCHANGED <<nonDiscVars, loopVars>>

NextBeacon ==
    \/ HandlePacket

SpecBeacon == InitBeacon /\ [][NextBeacon]_vars

\* the package parsed and its signature is the embedded key's over the
\* payload as it arrived
GenuinelySigned(d) ==
    /\ d.outer = "ok"
    /\ d.signature.intact
    /\ d.signature.signer = d.payload.public_key
    /\ d.signature.over = d.payload

\* C22: _handle_packet never raises, and it changes the peer store only
\* when the package parses and the embedded signature verifies over the
\* payload under the embedded public key; a malformed datagram, or one
\* whose payload or signature was altered, leaves the store unchanged.
C22_HostileDatagramsDiscarded ==
    pktCount > 0 =>
        /\ ~pktRaised
        /\ peerStore # storeBefore =>
              (GenuinelySigned(lastPkt) /\ lastPkt.payload.form = "ok")
        /\ lastPkt \in UNION {Altered(b) : b \in Beacons} =>
              peerStore = storeBefore
        /\ (lastPkt.outer # "ok" \/ lastPkt.payload.form # "ok") =>
              peerStore = storeBefore

\* a beacon whose payload was altered after signing was handled and dropped
C22_Witness ==
    /\ pktCount > 0
    /\ lastPkt.outer = "ok"
    /\ lastPkt.signature.intact
    /\ lastPkt.signature.over # lastPkt.payload
    /\ lastOut = "unverified"
    /\ peerStore = storeBefore

\* C23: after a verified beacon the peer store holds the beacon's peer_id
\* with the beacon's public key and with last_seen equal to the beacon's
\* timestamp, whether or not the peer_id was in the store before.
C23_VerifiedBeaconUpserts ==
    lastOut = "stored" =>
        LET row == peerStore[lastPkt.payload.peer_id]
        IN /\ row.present
           /\ row.public_key = lastPkt.payload.public_key
           /\ row.last_seen = lastPkt.payload.timestamp

---------------------------------------------------------------------------
(* SpecDiscLoops: one started PeerDiscovery (peer/peer_discovery.py        *)
(* 66-123): the transmit thread, the receive thread and the thread that     *)
(* calls stop().  Time is counted in ticks of 0.2 s; it passes only while   *)
(* every running thread is inside time.sleep or recvfrom, the other         *)
(* statements taking no time.                                              *)

\* the datagrams that arrive while the loops run
RxDatagrams ==
    {build_beacon("peer_b", "key_b", 1),
     [build_beacon("peer_b", "key_b", 1) EXCEPT !.signature.intact = FALSE]}

\* lines 98-114: start() has bound the sockets and started both threads
InitDiscLoops ==
    /\ P2PIdle
    /\ RetryIdle
    /\ StatusIdle
    /\ TorIdle
    /\ BootIdle
    /\ ConcIdle
    /\ DiscIdle
    /\ FileIdle
    /\ RdvIdle
    /\ LateIdle
    /\ stopFlag = FALSE
    /\ stopPc = "idle"
    /\ stopSlept = 0
    /\ stopCalls = 0
    /\ stopRaised = FALSE
    /\ dInterval \in 1..MaxIntervalTicks
    /\ txPc = "build"
    /\ txSlept = 0
    /\ rxPc = "check"
    /\ rxWaited = 0
    /\ sinceStop = -1
    /\ txExit = -1
    /\ rxExit = -1
    /\ dbConn \in {"open", "closed"}
    /\ dClock = 0
    /\ beaconTs = -1
    /\ txLast = NoTx

\* mutant of LoopRuns: the flag is not looked at
LoopRuns_Always(flag) == TRUE

\* lines 68 and 86: while not self._stop_event.is_set()
LoopRuns(flag) == ~flag

\* _build_beacon line 40: ts = int(time.time()), whole seconds; a second is
\* the RxTimeoutTicks ticks of the 1.0 s of line 109
BeaconTime(c) == c \div RxTimeoutTicks

\* lines 67-78: the beacon a round sends is the one built before the loop
BeaconOfRound(held, now) == held

\* line 67: beacon = self._build_beacon(), once, before the loop
TxBuild ==
    /\ txPc = "build"
    /\ beaconTs' = BeaconTime(dClock)
    /\ txPc' = "check"
    /\ UNCHANGED <<stopFlag, stopPc, stopSlept, stopCalls, stopRaised, dInterval,
                   txSlept, rxPc, rxWaited, sinceStop, txExit, rxExit, dbConn,
                   dClock, txLast>>
    /\ UNCHANGED <<nonDiscVars, discVars>>

\* line 68
TxCheck ==
    /\ txPc = "check"
    /\ IF LoopRuns(stopFlag)
       THEN txPc' = "send" /\ UNCHANGED txExit
       ELSE txPc' = "exited" /\ txExit' = sinceStop
    /\ UNCHANGED <<stopFlag, stopPc, stopSlept, stopCalls, stopRaised, dInterval,
                   txSlept, rxPc, rxWaited, sinceStop, rxExit, dbConn, beaconVars>>
    /\ UNCHANGED <<nonDiscVars, discVars>>

\* lines 69-83: the beacon is sent to the targets or broadcast, send errors
\* are passed over, and time.sleep(self.interval) starts
TxSend ==
    /\ txPc = "send"
    /\ txPc' = "sleep"
    /\ txSlept' = 0
    /\ txLast' = [ts |-> BeaconOfRound(beaconTs, dClock), at |-> dClock]
    /\ UNCHANGED <<stopFlag, stopPc, stopSlept, stopCalls, stopRaised, dInterval,
                   rxPc, rxWaited, sinceStop, txExit, rxExit, dbConn, dClock,
                   beaconTs>>
    /\ UNCHANGED <<nonDiscVars, discVars>>

\* line 83: time.sleep(self.interval) returns
TxWake ==
    /\ txPc = "sleep"
    /\ txSlept = dInterval
    /\ txPc' = "check"
    /\ UNCHANGED <<stopFlag, stopPc, stopSlept, stopCalls, stopRaised, dInterval,
                   txSlept, rxPc, rxWaited, sinceStop, txExit, rxExit, dbConn, beaconVars>>
    /\ UNCHANGED <<nonDiscVars, discVars>>

\* line 86, then recvfrom of line 88 starts waiting
RxCheck ==
    /\ rxPc = "check"
    /\ IF LoopRuns(stopFlag)
       THEN rxPc' = "recv" /\ rxWaited' = 0 /\ UNCHANGED rxExit
       ELSE rxPc' = "exited" /\ rxExit' = sinceStop /\ UNCHANGED rxWaited
    /\ UNCHANGED <<stopFlag, stopPc, stopSlept, stopCalls, stopRaised, dInterval,
                   txPc, txSlept, sinceStop, txExit, dbConn, beaconVars>>
    /\ UNCHANGED <<nonDiscVars, discVars>>

\* lines 93-94: recvfrom raised socket.timeout after the 1.0 s of line 109
RxTimeout ==
    /\ rxPc = "recv"
    /\ rxWaited = RxTimeoutTicks
    /\ rxPc' = "check"
    /\ UNCHANGED <<stopFlag, stopPc, stopSlept, stopCalls, stopRaised, dInterval,
                   txPc, txSlept, rxWaited, sinceStop, txExit, rxExit, dbConn, beaconVars>>
    /\ UNCHANGED <<nonDiscVars, discVars>>

\* lines 88-90 and 95-96: an empty datagram arrived, or recvfrom raised
\* another exception
RxEmpty ==
    /\ rxPc = "recv"
    /\ rxPc' = "check"
    /\ UNCHANGED <<stopFlag, stopPc, stopSlept, stopCalls, stopRaised, dInterval,
                   txPc, txSlept, rxWaited, sinceStop, txExit, rxExit, dbConn, beaconVars>>
    /\ UNCHANGED <<nonDiscVars, discVars>>

\* lines 88-92: a datagram arrived and _handle_packet ran; its database
\* statements open the connection when there is none (db_handler.py 65-77,
\* 112-117)
RxData ==
    /\ rxPc = "recv"
    /\ HandlePacketFrom(RxDatagrams)
    /\ rxPc' = "check"
    /\ dbConn' = IF HandleOutcome(lastPkt') = "verified" THEN "open" ELSE dbConn
    /\ UNCHANGED <<stopFlag, stopPc, stopSlept, stopCalls, stopRaised, dInterval,
                   txPc, txSlept, rxWaited, sinceStop, txExit, rxExit, beaconVars>>
    /\ UNCHANGED nonDiscVars

\* lines 116-119: stop() sets the flag and starts its time.sleep(0.2)
StopSet ==
    /\ stopPc \in {"idle", "returned"}
    /\ stopCalls < MaxStops
    /\ stopCalls' = stopCalls + 1
    /\ stopFlag' = TRUE
    /\ sinceStop' = IF sinceStop = -1 THEN 0 ELSE sinceStop
    /\ stopPc' = "sleeping"
    /\ stopSlept' = 0
    /\ UNCHANGED <<stopRaised, dInterval, txPc, txSlept, rxPc, rxWaited, txExit,
                   rxExit, dbConn, beaconVars>>
    /\ UNCHANGED <<nonDiscVars, discVars>>

\* lines 122-123: except Exception: pass
StopCatches(exc) == exc \in {"Exception"}

\* lines 120-123: self.db.close() (db_handler.py 79-84: nothing without a
\* connection; _conn = None even when closing raised), exceptions passed over
StopClose ==
    /\ stopPc = "sleeping"
    /\ stopSlept = GraceTicks
    /\ \E exc \in {"ok", "Exception"} :
          /\ dbConn = "closed" => exc = "ok"
          /\ stopRaised' = (stopRaised \/ (exc # "ok" /\ ~StopCatches(exc)))
    /\ dbConn' = "closed"
    /\ stopPc' = "returned"
    /\ UNCHANGED <<stopFlag, stopSlept, stopCalls, dInterval, txPc, txSlept, rxPc,
                   rxWaited, sinceStop, txExit, rxExit, beaconVars>>
    /\ UNCHANGED <<nonDiscVars, discVars>>

\* 0.2 s go by: every thread that still runs is inside a sleep or a
\* recvfrom that is not due yet
Tick ==
    /\ \/ txPc = "exited"
       \/ txPc = "sleep" /\ txSlept < dInterval
    /\ \/ rxPc = "exited"
       \/ rxPc = "recv" /\ rxWaited < RxTimeoutTicks
    /\ \/ stopPc \in {"idle", "returned"}
       \/ stopPc = "sleeping" /\ stopSlept < GraceTicks
    /\ sinceStop < MaxDiscClock
    /\ txSlept' = IF txPc = "sleep" THEN txSlept + 1 ELSE txSlept
    /\ rxWaited' = IF rxPc = "recv" THEN rxWaited + 1 ELSE rxWaited
    /\ stopSlept' = IF stopPc = "sleeping" THEN stopSlept + 1 ELSE stopSlept
    /\ sinceStop' = IF stopFlag THEN sinceStop + 1 ELSE sinceStop
    /\ dClock' = IF dClock < MaxTxClock THEN dClock + 1 ELSE dClock
    /\ UNCHANGED <<stopFlag, stopPc, stopCalls, stopRaised, dInterval, txPc, rxPc,
                   txExit, rxExit, dbConn, beaconTs, txLast>>
    /\ UNCHANGED <<nonDiscVars, discVars>>

NextDiscLoops ==
    \/ TxBuild
    \/ TxCheck
    \/ TxSend
    \/ TxWake
    \/ RxCheck
    \/ RxTimeout
    \/ RxEmpty
    \/ RxData
    \/ StopSet
    \/ StopClose
    \/ Tick

SpecDiscLoops == InitDiscLoops /\ [][NextDiscLoops]_vars

\* C24: once stop() has set the flag both loops terminate, the transmit
\* loop within one transmit interval and the receive loop within one
\* receive timeout of the moment the flag was set, and a second stop()
\* raises nothing and restarts nothing.
C24_LoopsObserveStop ==
    /\ txExit # -1 => txExit <= dInterval
    /\ rxExit # -1 => rxExit <= RxTimeoutTicks
    /\ (stopFlag /\ sinceStop > dInterval) => txPc = "exited"
    /\ (stopFlag /\ sinceStop > RxTimeoutTicks) => rxPc = "exited"
    /\ ~stopRaised
    /\ stopCalls > 0 => stopFlag

\* stop() was called twice and returned, and both loops ended after having
\* been caught by the flag inside their waits
C24_Witness ==
    /\ stopCalls = MaxStops
    /\ stopPc = "returned"
    /\ txPc = "exited"
    /\ rxPc = "exited"
    /\ txExit = dInterval
    /\ rxExit = RxTimeoutTicks
    /\ sinceStop > RxTimeoutTicks

---------------------------------------------------------------------------
(* SpecFile: split_file, reassemble_file and sha256_file                   *)
(* (utils/file_transfer.py 4-29) and a transfer of the chunks with          *)
(* send_file_chunks and receive_file_chunks (peer/connection_manager.py     *)
(* 103-142) over one socket.  Files are short byte strings and f.read       *)
(* returns ChunkLen bytes where the program reads CHUNK_SIZE.               *)

Bytes == {0, 1}
Files == UNION {[1..n -> Bytes] : n \in 0..MaxFileLen}

Min(a, b) == IF a <= b THEN a ELSE b

\* mutant of ReadEnd: a read returns one byte less than asked for
ReadEnd_Short(pos, size, len) == Min(pos + size - 1, len)

\* line 11: f.read(size) at offset pos of a file of len bytes returns the
\* bytes up to this offset: size bytes, or what is left of the file
ReadEnd(pos, size, len) == Min(pos + size, len)

\* lines 9-15 on a file of len bytes: the reads of the loop start at the
\* offsets 0, size, 2 size, ... and a chunk is yielded for every read that
\* returns bytes
ReadOffsets(size, len) ==
    {pos \in {k * size : k \in 0..(len \div size)} : ReadEnd(pos, size, len) > pos}

\* the number of chunks split_file yields (ui/main_ui.py 421:
\* sum(1 for _ in split_file(dst_path)))
NumChunks(size, len) == Cardinality(ReadOffsets(size, len))

\* the chunk counts of a 10 MiB file and of a file of one chunk size
TenMiBCount == NumChunks(CHUNK_SIZE, 10 * 1024 * 1024)
OneChunkCount == NumChunks(CHUNK_SIZE, CHUNK_SIZE)

\* lines 23-29: sha256_file, taken as free of collisions
sha256_file(content) == [sha256 |-> content]

\* line 112: chunk.hex(), two digits a byte
ToHex(chunk) ==
    [i \in 1..(2 * Len(chunk)) |->
        IF i % 2 = 1 THEN chunk[(i + 1) \div 2] \div 16 ELSE chunk[i \div 2] % 16]

\* line 137: bytes.fromhex(msg["data"])
FromHex(h) ==
    [i \in 1..(Len(h) \div 2) |-> 16 * h[2 * i - 1] + h[2 * i]]

RECURSIVE InsertBySeq(_, _)
InsertBySeq(s, x) ==
    IF s = << >> THEN <<x>>
    ELSE IF s[Len(s)][1] <= x[1] THEN Append(s, x)
    ELSE Append(InsertBySeq(SubSeq(s, 1, Len(s) - 1), x), s[Len(s)])

\* mutant of SortBySeq: the chunks are written in the order supplied
SortBySeq_AsSupplied(chunks) == chunks

RECURSIVE SortBySeq(_)
\* line 20: sorted(chunks, key=lambda x: x[0]), a stable sort
SortBySeq(chunks) ==
    IF chunks = << >> THEN << >>
    ELSE InsertBySeq(SortBySeq(SubSeq(chunks, 1, Len(chunks) - 1)),
                     chunks[Len(chunks)])

RECURSIVE ConcatChunks(_)
ConcatChunks(chunks) ==
    IF chunks = << >> THEN << >>
    ELSE chunks[1][2] \o ConcatChunks(Tail(chunks))

\* lines 17-21: the content reassemble_file writes to output_path
reassemble_file(chunks) == ConcatChunks(SortBySeq(chunks))

\* the caller saved the file and hashed it (ui/main_ui.py 363), split_file
\* was called on it, and the receiver was told the number of chunks
InitFile ==
    /\ P2PIdle
    /\ RetryIdle
    /\ StatusIdle
    /\ TorIdle
    /\ BootIdle
    /\ ConcIdle
    /\ DiscIdle
    /\ LoopIdle
    /\ RdvIdle
    /\ LateIdle
    /\ fFile \in Files
    /\ fHash = sha256_file(fFile)
    /\ genPc = "reading"
    /\ genPos = 0
    /\ genSeq = 0
    /\ yielded = << >>
    /\ reDone = FALSE
    /\ reOrder = << >>
    /\ reOut = << >>
    /\ fSndPc = "sending"
    /\ fWire = << >>
    /\ fOthers = 0
    /\ fFaults = 0
    /\ fRcvPc = "recv"
    /\ chunk_count = NumChunks(ChunkLen, Len(fFile))
    /\ received_chunks = << >>
    /\ fWritten = FALSE
    /\ fOut = << >>
    /\ fReported = FALSE

\* connection_manager.py 108-116 with file_transfer.py 9-15: the for loop
\* takes the next chunk from split_file and hands it to send_message, which
\* writes it on the socket or prints the error (355-362); when the read
\* returns nothing the generator and the loop end
SendChunk ==
    /\ fSndPc = "sending"
    /\ genPc = "reading"
    /\ LET end == ReadEnd(genPos, ChunkLen, Len(fFile))
           chunk == SubSeq(fFile, genPos + 1, end)
           msg == [type |-> "file_chunk", seq |-> genSeq, data |-> ToHex(chunk)]
       IN IF end = genPos
          THEN /\ genPc' = "ended"
               /\ fSndPc' = "done"
               /\ UNCHANGED <<genPos, genSeq, yielded, fWire>>
          ELSE /\ yielded' = Append(yielded, <<genSeq, chunk>>)
               /\ genSeq' = genSeq + 1
               /\ genPos' = end
               /\ \E ok \in BOOLEAN :
                     fWire' = IF ok THEN Append(fWire, msg) ELSE fWire
               /\ UNCHANGED <<genPc, fSndPc>>
    /\ UNCHANGED <<fFile, fHash, reDone, reOrder, reOut, fOthers, fFaults, fRcvPc,
                   chunk_count, received_chunks, fWritten, fOut, fReported>>
    /\ UNCHANGED nonFileVars

\* another message is written on the same socket
SendOther ==
    /\ fSndPc \in {"sending", "done"}
    /\ fOthers < MaxOtherMsgs
    /\ fOthers' = fOthers + 1
    /\ fWire' = Append(fWire, [type |-> "text", seq |-> 0, data |-> << >>])
    /\ UNCHANGED <<splitVars, fSndPc, fFaults, fRcvPc, chunk_count,
                   received_chunks, fWritten, fOut, fReported>>
    /\ UNCHANGED nonFileVars

\* ui/main_ui.py 385: sock.close() after send_file_chunks, or the
\* connection is lost while the chunks are being sent
CloseSocket ==
    /\ fSndPc \in {"sending", "done"}
    /\ fSndPc' = "closed"
    /\ UNCHANGED <<splitVars, fWire, fOthers, fFaults, fRcvPc, chunk_count,
                   received_chunks, fWritten, fOut, fReported>>
    /\ UNCHANGED nonFileVars

\* the first byte of a chunk is changed between sender and receiver
WireFault ==
    /\ fFaults < MaxFaults
    /\ \E i \in 1..Len(fWire) :
          /\ fWire[i].type = "file_chunk"
          /\ fWire' = [fWire EXCEPT ![i].data[2] = 1 - @]
    /\ fFaults' = fFaults + 1
    /\ UNCHANGED <<splitVars, fSndPc, fOthers, fRcvPc, chunk_count,
                   received_chunks, fWritten, fOut, fReported>>
    /\ UNCHANGED nonFileVars

\* line 125: the loop goes on while chunks are missing
ChunksMissing(received, count) == Len(received) < count

\* lines 125-141: recv returned one message of the wire; a file_chunk is
\* appended to received_chunks, anything else is passed over
RecvMsg ==
    /\ fRcvPc = "recv"
    /\ ChunksMissing(received_chunks, chunk_count)
    /\ fWire # << >>
    /\ fWire' = Tail(fWire)
    /\ received_chunks' =
          IF fWire[1].type = "file_chunk"
          THEN Append(received_chunks, <<fWire[1].seq, FromHex(fWire[1].data)>>)
          ELSE received_chunks
    /\ UNCHANGED <<splitVars, fSndPc, fOthers, fFaults, fRcvPc, chunk_count,
                   fWritten, fOut, fReported>>
    /\ UNCHANGED nonFileVars

\* lines 126 and 134: recv returned a part of a message or more than one
\* (nothing frames the messages on the socket) and json.loads raised out of
\* receive_file_chunks
RecvGarbled ==
    /\ fRcvPc = "recv"
    /\ ChunksMissing(received_chunks, chunk_count)
    /\ fWire # << >>
    /\ fWire' = Tail(fWire)
    /\ fRcvPc' = "raised"
    /\ UNCHANGED <<splitVars, fSndPc, fOthers, fFaults, chunk_count,
                   received_chunks, fWritten, fOut, fReported>>
    /\ UNCHANGED nonFileVars

\* lines 126-128 and 142: recv returned b'' because the peer closed the
\* socket; the loop is left with break and reassemble_file is called
RecvEof ==
    /\ fRcvPc = "recv"
    /\ ChunksMissing(received_chunks, chunk_count)
    /\ fWire = << >>
    /\ fSndPc = "closed"
    /\ fWritten' = TRUE
    /\ fOut' = reassemble_file(received_chunks)
    /\ fRcvPc' = "returned"
    /\ UNCHANGED <<splitVars, fSndPc, fWire, fOthers, fFaults, chunk_count,
                   received_chunks, fReported>>
    /\ UNCHANGED nonFileVars

\* lines 125 and 142: the count is reached, reassemble_file is called and
\* receive_file_chunks returns
RecvDone ==
    /\ fRcvPc = "recv"
    /\ ~ChunksMissing(received_chunks, chunk_count)
    /\ fWritten' = TRUE
    /\ fOut' = reassemble_file(received_chunks)
    /\ fRcvPc' = "returned"
    /\ UNCHANGED <<splitVars, fSndPc, fWire, fOthers, fFaults, chunk_count,
                   received_chunks, fReported>>
    /\ UNCHANGED nonFileVars

\* the orders in which n chunks can be supplied
Orders(n) == {f \in [1..n -> 1..n] : \A i, j \in 1..n : f[i] = f[j] => i = j}

\* reassemble_file(chunks, output_path) on the chunks of split_file in some
\* order (tests/test_file_transfer.py 128-143)
ReassembleYielded ==
    /\ genPc = "ended"
    /\ ~reDone
    /\ \E order \in Orders(Len(yielded)) :
          /\ reOrder' = order
          /\ reOut' = reassemble_file([i \in 1..Len(yielded) |-> yielded[order[i]]])
    /\ reDone' = TRUE
    /\ UNCHANGED <<fFile, fHash, genPc, genPos, genSeq, yielded, xferVars>>
    /\ UNCHANGED nonFileVars

NextFile ==
    \/ SendChunk
    \/ SendOther
    \/ CloseSocket
    \/ WireFault
    \/ RecvMsg
    \/ RecvGarbled
    \/ RecvEof
    \/ RecvDone
    \/ ReassembleYielded

SpecFile == InitFile /\ [][NextFile]_vars

\* ceil(s / c)
CeilDiv(s, c) == (s + c - 1) \div c

\* C25: split_file yields (seq, bytes) with seq = 0, 1, 2, ..., every chunk
\* of exactly the chunk size except a possibly shorter, non-empty last one;
\* a file of size s yields ceil(s / chunk size) chunks (160 for 10 MiB at
\* 64 KiB, one for a file of one chunk size) and an empty file none.
C25_SplitYieldsCeilChunks ==
    /\ \A i \in 1..Len(yielded) :
          /\ yielded[i][1] = i - 1
          /\ Len(yielded[i][2]) \in 1..ChunkLen
          /\ i < Len(yielded) => Len(yielded[i][2]) = ChunkLen
    /\ genPc = "ended" =>
          /\ Len(yielded) = CeilDiv(Len(fFile), ChunkLen)
          /\ fFile = << >> => yielded = << >>
    /\ TenMiBCount = 160
    /\ OneChunkCount = 1

\* a file that does not end on a chunk boundary was split to its end
C25_Witness ==
    /\ genPc = "ended"
    /\ Len(yielded) >= 2
    /\ Len(yielded[Len(yielded)][2]) < ChunkLen

\* C26: reassembling the chunks of split_file(F), supplied in any order,
\* reproduces F byte for byte, for every F including the empty file and a
\* file of exactly one chunk.
C26_ReassembleRestoresFile ==
    reDone => reOut = fFile

\* the chunks of a file of several chunks were supplied out of order
C26_Witness ==
    /\ reDone
    /\ Len(yielded) >= 2
    /\ reOrder[1] # 1
    /\ reOut = fFile

\* C27: receive_file_chunks calls reassemble_file only when chunk_count
\* file_chunk messages have been accumulated: the output file is never
\* written from fewer than chunk_count chunks.
C27_WrittenOnlyFromAllChunks ==
    fWritten => Len(received_chunks) >= chunk_count

\* C28: after reassembly the receiver compares the hash of the file it
\* wrote with the hash the sender computed, and reports an integrity
\* mismatch whenever they differ.
C28_MismatchAlwaysReported ==
    (fRcvPc = "returned" /\ sha256_file(fOut) # fHash) => fReported

---------------------------------------------------------------------------
(* SpecRdv: one rendezvous exchange.  The plain variant is                  *)
(* ConnectionManager.secure_rendezvous and receive_rendezvous               *)
(* (peer/connection_manager.py 79-101); the authenticated variant is the    *)
(* exchange of tests/test_tor_peer_connection.py 90-133, which signs the    *)
(* packed payload with sign_message and checks it with verify_signature     *)
(* (utils/crypto_utils.py 112-137).  Anybody can encrypt to the             *)
(* recipient's public key, so the envelope on the channel may have been     *)
(* replaced by one of another maker.                                       *)

SessionInfos == {"session_small", "session_large"}
NatInfos == {"nat_cone"}

\* bytes of the packed session_info and nat_info maps
SizeOf(info) == IF info = "session_large" THEN 4096 ELSE 64

\* msgpack.packb(payload): a four-entry map with the 451-byte PEM of an
\* RSA-2048 key (crypto_utils.py 27)
PackedLen(payload) == 504 + SizeOf(payload.session_info) + SizeOf(payload.nat_info)

\* base64.b64encode of n bytes
B64Len(n) == 4 * ((n + 2) \div 3)

\* crypto_utils.py 63-87: the JSON text of enc_key (256 bytes of RSA-OAEP),
\* nonce (12 bytes) and ciphertext (plaintext and a 16-byte tag)
EnvelopeLen(ptLen) == 59 + B64Len(256) + B64Len(12) + B64Len(ptLen + 16)

\* crypto_utils.py 57-87: hybrid_encrypt(pub, plaintext)
hybrid_encrypt(pub, plaintext, ptLen) ==
    [form |-> "json", rcpt |-> pub, intact |-> TRUE, len |-> EnvelopeLen(ptLen),
     plaintext |-> plaintext]

\* crypto_utils.py 90-109: the exception hybrid_decrypt(priv, package_json)
\* ends with: json.loads fails on text that is no complete JSON, RSA-OAEP
\* on a key encrypted for another recipient, AES-GCM on a changed
\* ciphertext; "none" when it returns the plaintext
DecryptError(priv, env) ==
    IF env.form # "json" THEN "JSONDecodeError"
    ELSE IF env.rcpt # priv THEN "ValueError"
    ELSE IF ~env.intact THEN "InvalidTag"
    ELSE "none"

\* line 98: tor_socket.recv(4096) returns at most bufsize bytes of what was
\* sent
Recv(env, bufsize) ==
    IF env.len > bufsize THEN [env EXCEPT !.form = "truncated"] ELSE env

\* msgpack.packb of the plain payload
PackPlain(payload) ==
    [form |-> "msgpack", payload |-> payload, signature |-> NoSig,
     sigForm |-> "absent"]

\* test_tor_peer_connection.py 106-116: the packed payload and its
\* signature, packed again
PackAuth(payload, k) ==
    [form |-> "msgpack", payload |-> payload,
     signature |-> sign_message(k, payload), sigForm |-> "bytes"]

\* my_info['public_key'] is a str (the placeholder of _save_peers or a PEM
\* text), bytes, an RSA key object, or my_info was never set
MyKeyForms == {"unset", "str", "bytes", "rsa_key"}

RdvInputs ==
    {[variant |-> v, myKey |-> m, senderKey |-> s, signKey |-> g, rcpt |-> r,
      rcvKey |-> c, session_info |-> si, nat_info |-> ni] :
        v \in {"plain", "auth"}, m \in MyKeyForms, s \in Keys, g \in Keys,
        r \in Keys, c \in Keys, si \in SessionInfos, ni \in NatInfos}

InitRdv ==
    /\ P2PIdle
    /\ RetryIdle
    /\ StatusIdle
    /\ TorIdle
    /\ BootIdle
    /\ ConcIdle
    /\ DiscIdle
    /\ LoopIdle
    /\ FileIdle
    /\ LateIdle
    /\ rdvIn \in RdvInputs
    /\ rdvIn.variant = "plain" => rdvIn.signKey = rdvIn.senderKey
    /\ rdvIn.variant = "auth" => rdvIn.myKey = "str"
    /\ rdvSndPc = "idle"
    /\ rdvSent = NoPayload
    /\ rdvWire = NoEnv
    /\ rdvTamper = "none"
    /\ rdvRcvPc = "idle"
    /\ rdvVerify = "none"
    /\ rdvPayload = NoPayload

\* lines 83-88 and test lines 100-105
BuildPayload(in) ==
    [type |-> "rendezvous", public_key |-> in.senderKey,
     session_info |-> in.session_info, nat_info |-> in.nat_info]

\* connection_manager.py 79-92: secure_rendezvous.  Line 85 raises without
\* my_info and when the key is bytes (serialize_public_key of bytes); line
\* 89 raises on an RSA key object, which msgpack cannot pack
SecureRendezvous ==
    /\ rdvIn.variant = "plain"
    /\ rdvSndPc = "idle"
    /\ IF rdvIn.myKey = "str"
       THEN /\ rdvSent' = BuildPayload(rdvIn)
            /\ rdvWire' = hybrid_encrypt(rdvIn.rcpt, PackPlain(BuildPayload(rdvIn)),
                                         PackedLen(BuildPayload(rdvIn)))
            /\ rdvSndPc' = "sent"
       ELSE /\ rdvSndPc' = "raised"
            /\ UNCHANGED <<rdvSent, rdvWire>>
    /\ UNCHANGED <<rdvIn, rdvTamper, rdvRcvPc, rdvVerify, rdvPayload>>
    /\ UNCHANGED nonRdvVars

\* test_tor_peer_connection.py 99-119: the sender of the authenticated
\* variant signs the packed payload with its private key
SendAuth ==
    /\ rdvIn.variant = "auth"
    /\ rdvSndPc = "idle"
    /\ rdvSent' = BuildPayload(rdvIn)
    /\ rdvWire' = hybrid_encrypt(rdvIn.rcpt,
                                 PackAuth(BuildPayload(rdvIn), rdvIn.signKey),
                                 PackedLen(BuildPayload(rdvIn)) + 256)
    /\ rdvSndPc' = "sent"
    /\ UNCHANGED <<rdvIn, rdvTamper, rdvRcvPc, rdvVerify, rdvPayload>>
    /\ UNCHANGED nonRdvVars

TamperKinds == {"garbage", "ciphertext", "payload", "signature", "sig_not_bytes",
                "not_msgpack"}

\* what reaches the receiver in place of the envelope sent: bytes that are
\* no envelope, the envelope with a changed ciphertext, or an envelope
\* somebody else encrypted for the recipient around a changed payload, a
\* changed signature, a signature that is no byte string, or no msgpack
Tampered(env, kind) ==
    IF kind = "garbage" THEN [env EXCEPT !.form = "garbage"]
    ELSE IF kind = "ciphertext" THEN [env EXCEPT !.intact = FALSE]
    ELSE IF kind = "payload"
    THEN [env EXCEPT !.plaintext.payload.session_info =
                        IF @ = "session_small" THEN "session_large"
                        ELSE "session_small",
                     !.len = EnvelopeLen(PackedLen(env.plaintext.payload))]
    ELSE IF kind = "signature" THEN [env EXCEPT !.plaintext.signature.intact = FALSE]
    ELSE IF kind = "sig_not_bytes" THEN [env EXCEPT !.plaintext.sigForm = "not_bytes"]
    ELSE [env EXCEPT !.plaintext.form = "garbage"]

Tamper ==
    /\ rdvSndPc = "sent"
    /\ rdvRcvPc = "idle"
    /\ rdvTamper = "none"
    /\ \E kind \in TamperKinds :
          /\ kind \in {"signature", "sig_not_bytes"} => rdvIn.variant = "auth"
          /\ rdvTamper' = kind
          /\ rdvWire' = Tampered(rdvWire, kind)
    /\ UNCHANGED <<rdvIn, rdvSndPc, rdvSent, rdvRcvPc, rdvVerify, rdvPayload>>
    /\ UNCHANGED nonRdvVars

\* connection_manager.py 94-101: receive_rendezvous(tor_socket, my_privkey)
ReceiveRendezvous ==
    /\ rdvIn.variant = "plain"
    /\ rdvSndPc = "sent"
    /\ rdvRcvPc = "idle"
    /\ LET data == Recv(rdvWire, RecvBufSize)
           exc == IF DecryptError(rdvIn.rcvKey, data) # "none"
                  THEN DecryptError(rdvIn.rcvKey, data)
                  ELSE IF data.plaintext.form # "msgpack" THEN "UnpackException"
                  ELSE "none"
       IN IF exc = "none"
          THEN /\ rdvRcvPc' = "returned"
               /\ rdvPayload' = data.plaintext.payload
          ELSE /\ rdvRcvPc' = "raised"
               /\ UNCHANGED rdvPayload
    /\ UNCHANGED <<rdvIn, rdvSndPc, rdvSent, rdvWire, rdvTamper, rdvVerify>>
    /\ UNCHANGED nonRdvVars

\* mutant of VerifyCatches: only InvalidSignature is caught
VerifyCatches_InvalidOnly(exc) == exc = "InvalidSignature"

\* crypto_utils.py 136: except Exception
VerifyCatches(exc) == exc \in {"InvalidSignature", "TypeError"}

\* crypto_utils.py 124-137: verify_signature called with what the message
\* holds as its signature; pub.verify raises TypeError on a signature that
\* is no byte string and InvalidSignature on one that does not verify
VerifyCall(pub, data, sig, sigForm) ==
    LET exc == IF sigForm # "bytes" THEN "TypeError"
               ELSE IF verify_signature(pub, data, sig) THEN "none"
               ELSE "InvalidSignature"
    IN IF exc = "none" THEN "True"
       ELSE IF VerifyCatches(exc) THEN "False"
       ELSE "raised"

\* test_tor_peer_connection.py 120-131: the receiver of the authenticated
\* variant decrypts, unpacks the outer map, verifies the signature over
\* the packed payload under the sender's public key, and unpacks the
\* payload only after that
ReceiveAuth ==
    /\ rdvIn.variant = "auth"
    /\ rdvSndPc = "sent"
    /\ rdvRcvPc = "idle"
    /\ LET data == rdvWire
           exc == IF DecryptError(rdvIn.rcvKey, data) # "none"
                  THEN DecryptError(rdvIn.rcvKey, data)
                  ELSE IF data.plaintext.form # "msgpack" THEN "UnpackException"
                  ELSE "none"
           ok == VerifyCall(rdvIn.senderKey, data.plaintext.payload,
                            data.plaintext.signature, data.plaintext.sigForm)
       IN IF exc # "none"
          THEN /\ rdvRcvPc' = "raised"
               /\ UNCHANGED <<rdvVerify, rdvPayload>>
          ELSE /\ rdvVerify' = ok
               /\ rdvRcvPc' = IF ok = "True" THEN "returned"
                              ELSE IF ok = "False" THEN "discarded"
                              ELSE "raised"
               /\ rdvPayload' = IF ok = "True" THEN data.plaintext.payload
                                ELSE rdvPayload
    /\ UNCHANGED <<rdvIn, rdvSndPc, rdvSent, rdvWire, rdvTamper>>
    /\ UNCHANGED nonRdvVars

NextRdv ==
    \/ SecureRendezvous
    \/ SendAuth
    \/ Tamper
    \/ ReceiveRendezvous
    \/ ReceiveAuth

SpecRdv == InitRdv /\ [][NextRdv]_vars

\* the receiver of the exchange has run
RdvReceived == rdvRcvPc \in {"returned", "discarded", "raised"}

\* C29: a payload sent with secure_rendezvous for a recipient public key is
\* returned unchanged by receive_rendezvous with the matching private key,
\* and receive_rendezvous on a malformed envelope or with a non-matching
\* private key raises and yields no payload.
C29_RendezvousRoundTrip ==
    (rdvIn.variant = "plain" /\ RdvReceived) =>
        /\ (rdvTamper = "none" /\ rdvIn.rcvKey = rdvIn.rcpt) =>
              (rdvRcvPc = "returned" /\ rdvPayload = rdvSent)
        /\ (rdvTamper \in {"garbage", "ciphertext", "not_msgpack"}
              \/ rdvIn.rcvKey # rdvIn.rcpt) =>
              (rdvRcvPc = "raised" /\ rdvPayload = NoPayload)

---------------------------------------------------------------------------
(* SpecTunnel: TunnelHandler.https_tunnel (peer/tunnel_handler.py 53-116)   *)
(* with its rate limiter _is_rate_limited (7-22).  Time is counted in       *)
(* seconds.  _connection_times is a class attribute keyed by id(ws); an     *)
(* entry is never removed, and CPython may give a new WebSocketResponse     *)
(* the id of one that was freed.                                            *)

\* line 8: _rate_limit_window = 5
rate_limit_window == 5
\* line 9: _rate_limit_max = 10
rate_limit_max == 10

\* line 17: [t for t in times if now - t < self._rate_limit_window]
InWindow(times, now) == SelectSeq(times, LAMBDA t : now - t < rate_limit_window)

\* lines 12-22: the value _is_rate_limited returns
is_rate_limited(times, now) == Len(InWindow(times, now)) >= rate_limit_max

\* lines 18-21: the list it leaves in _connection_times
TimesAfter(times, now) ==
    IF is_rate_limited(times, now) THEN InWindow(times, now)
    ELSE Append(InWindow(times, now), now)

\* a text frame or a batch item: a map with a type, a map without one, or
\* a frame json.loads / msgpack.unpackb cannot take
MsgKinds == {"typed", "untyped", "malformed"}

\* the timestamps left by a connection that had all its messages but one
\* of a window processed in the second the model starts at
Burst == [k \in 1..(rate_limit_max - 1) |-> 0]

\* no connection yet, or the first connection after such a burst
InitTunnel ==
    /\ P2PIdle
    /\ RetryIdle
    /\ StatusIdle
    /\ TorIdle
    /\ BootIdle
    /\ MidIdle
    /\ CrIdle
    /\ CodecIdle
    /\ SyncIdle
    /\ tnClock = 0
    /\ \/ /\ connection_times = [i \in ConnIds |-> << >>]
          /\ tnConn = [c \in Conns |-> [st |-> "new", id |-> 0]]
          /\ tnProcessed = [c \in Conns |-> << >>]
       \/ /\ connection_times = [i \in ConnIds |-> IF i = 1 THEN Burst ELSE << >>]
          /\ tnConn = [c \in Conns |-> IF c = 1 THEN [st |-> "open", id |-> 1]
                                        ELSE [st |-> "new", id |-> 0]]
          /\ tnProcessed = [c \in Conns |-> IF c = 1 THEN Burst ELSE << >>]
    /\ tnMsgs = 0
    /\ tnResp = [c \in Conns |-> NoResp]

\* the ids of the WebSocketResponse objects alive now
LiveIds == {tnConn[c].id : c \in {d \in Conns : tnConn[d].st = "open"}}

\* lines 57-63: a connection is accepted; id(ws) is any value no live
\* object has
TunnelOpen(c) ==
    /\ tnConn[c].st = "new"
    /\ \E i \in ConnIds \ LiveIds :
          tnConn' = [tnConn EXCEPT ![c] = [st |-> "open", id |-> i]]
    /\ UNCHANGED <<tnClock, connection_times, tnProcessed, tnMsgs, tnResp>>
    /\ UNCHANGED nonTunVars

\* lines 95-107 (a text frame) and 77-88 (an item of a batch)
TunnelMessage(c) ==
    /\ tnConn[c].st = "open"
    /\ tnMsgs < MaxTunnelMsgs
    /\ tnMsgs' = tnMsgs + 1
    /\ \E kind \in MsgKinds :
          LET i == tnConn[c].id
              own == Len(InWindow(tnProcessed[c], tnClock))
          IN IF kind = "malformed"
             THEN /\ tnResp' = [tnResp EXCEPT ![c] = [status |-> "error", own |-> own]]
                  /\ UNCHANGED <<connection_times, tnProcessed>>
             ELSE /\ connection_times' =
                        [connection_times EXCEPT ![i] = TimesAfter(@, tnClock)]
                  /\ IF is_rate_limited(connection_times[i], tnClock)
                     THEN /\ tnResp' = [tnResp EXCEPT ![c] =
                                          [status |-> "rate_limited", own |-> own]]
                          /\ tnProcessed' = [tnProcessed EXCEPT ![c] =
                                               InWindow(@, tnClock)]
                     ELSE /\ tnResp' = [tnResp EXCEPT ![c] =
                                          [status |-> IF kind = "typed" THEN "ok"
                                                      ELSE "auth_failed",
                                           own |-> own]]
                          /\ tnProcessed' = [tnProcessed EXCEPT ![c] =
                                               Append(InWindow(@, tnClock), tnClock)]
    /\ UNCHANGED <<tnClock, tnConn>>
    /\ UNCHANGED nonTunVars

\* lines 111-116: the connection ends; its entry of self.connections is
\* deleted, the one of _connection_times stays
TunnelClose(c) ==
    /\ tnConn[c].st = "open"
    /\ tnConn' = [tnConn EXCEPT ![c].st = "closed"]
    /\ UNCHANGED <<tnClock, connection_times, tnProcessed, tnMsgs, tnResp>>
    /\ UNCHANGED nonTunVars

\* line 14: a second passes
TunnelTick ==
    /\ tnClock < MaxTunnelClock
    /\ tnClock' = tnClock + 1
    /\ UNCHANGED <<connection_times, tnConn, tnProcessed, tnMsgs, tnResp>>
    /\ UNCHANGED nonTunVars

NextTunnel ==
    \/ \E c \in Conns : TunnelOpen(c)
    \/ \E c \in Conns : TunnelMessage(c)
    \/ \E c \in Conns : TunnelClose(c)
    \/ TunnelTick

SpecTunnel == InitTunnel /\ [][NextTunnel]_vars

\* the connection's own messages that passed the limiter inside the window
\* that ends now
OwnInWindow(c) ==
    Cardinality({k \in 1..Len(tnProcessed[c]) :
                    tnClock - tnProcessed[c][k] < rate_limit_window})

\* C31: per connection at most _rate_limit_max messages are processed
\* inside any window of _rate_limit_window seconds; a message is answered
\* 'rate_limited' exactly when _rate_limit_max processed messages of its
\* own connection lie inside the window, so that rejected messages use no
\* quota and the traffic of another connection never gets a connection
\* rate-limited.
C31_RateLimitPerConnection ==
    \A c \in Conns :
        /\ OwnInWindow(c) <= rate_limit_max
        /\ tnResp[c].status = "rate_limited" => tnResp[c].own >= rate_limit_max
        /\ tnResp[c].status \in {"ok", "auth_failed"} =>
              tnResp[c].own < rate_limit_max

---------------------------------------------------------------------------
(* SpecConnRetry: ConnectionManager.connect_to_peer                         *)
(* (peer/connection_manager.py 177-206) with the send_func it builds on     *)
(* send_message (355-362) and hands to retry_pending_messages               *)
(* (db/db_handler.py 176-193).                                              *)

\* the rows of the peer connected to, one per message id
ConnRows == [peer_id : {"peer_a"}, timestamp : 1..2, sync_status : Statuses]

InitConnRetry ==
    /\ P2PIdle
    /\ StatusIdle
    /\ TorIdle
    /\ BootIdle
    /\ MidIdle
    /\ TunIdle
    /\ CodecIdle
    /\ SyncIdle
    /\ msgs \in [MsgIds -> ConnRows]
    /\ msgs0 = msgs
    /\ rArgs = [peer_id |-> "peer_a", max_retries |-> DefaultMaxRetries,
                send_func |-> "connect_to_peer"]
    /\ rPc = "idle"
    /\ pending = << >>
    /\ rIdx = 0
    /\ retries = 0
    /\ backoff = 0
    /\ calls = [m \in MsgIds |-> 0]
    /\ okCalls = [m \in MsgIds |-> 0]
    /\ sleeps = [m \in MsgIds |-> << >>]
    /\ reported = {}
    /\ callNo = 1
    /\ sendLog = << >>
    /\ sentLog = << >>
    /\ crPc = "start"
    /\ crRet = "none"
    /\ crSock = "none"
    /\ crWire = {}
    /\ crContent \in [MsgIds -> {"bytes", "str"}]

\* lines 179-203: the socket is connected, the peer entered and
\* retry_pending_messages called; a connect that raises returns False
ConnConnect ==
    /\ crPc = "start"
    /\ \E ok \in BOOLEAN :
          IF ok
          THEN /\ crSock' = "connected"
               /\ crPc' = "retrying"
               /\ rPc' = "start"
               /\ UNCHANGED crRet
          ELSE /\ crPc' = "returned"
               /\ crRet' = "False"
               /\ UNCHANGED <<crSock, rPc>>
    /\ UNCHANGED <<crWire, crContent>>
    /\ UNCHANGED <<msgs, msgs0, rArgs, pending, rIdx, retries, backoff, calls,
                   okCalls, sleeps, reported, callNo, sendLog, sentLog>>
    /\ UNCHANGED nonCrVars

\* the peer closes the connection or the network drops it
ConnBreak ==
    /\ crSock = "connected"
    /\ crSock' = "broken"
    /\ UNCHANGED <<crPc, crRet, crWire, crContent>>
    /\ UNCHANGED <<retryVars, nonCrVars>>

\* lines 355-362: whether send_message lets the exception of
\* client_socket.send reach its caller; except Exception prints it
SendMessageRaises(sendOk) == FALSE

\* lines 195-201: what send_func(msg) returns: msg["content"].decode raises
\* on a content that is no bytes, and an exception gives False
SendFuncResult(content, sendOk) ==
    IF content # "bytes" THEN "false"
    ELSE IF SendMessageRaises(sendOk) THEN "false"
    ELSE "true"

\* db_handler.py 183-191 with connect_to_peer's send_func: one pass of the
\* while loop
ConnRetryAttempt ==
    /\ crPc = "retrying"
    /\ rPc = "while"
    /\ LoopContinues(retries, rArgs.max_retries)
    /\ LET m == pending[rIdx]
           sendOk == crSock = "connected"
           o == SendFuncResult(crContent[m], sendOk)
       IN /\ crWire' = IF crContent[m] = "bytes" /\ sendOk THEN crWire \cup {m}
                       ELSE crWire
          /\ calls' = [calls EXCEPT ![m] = @ + 1]
          /\ okCalls' = [okCalls EXCEPT ![m] = IF o = "true" THEN @ + 1 ELSE @]
          /\ msgs' = UpdateMessageStatus(msgs, m,
                          StatusAfterSend(o = "true", msgs[m].sync_status))
          /\ sleeps' = [sleeps EXCEPT ![m] = IF o = "false" THEN Append(@, backoff) ELSE @]
          /\ backoff' = IF o = "false" THEN NextBackoff(backoff) ELSE backoff
          /\ retries' = IF o = "false" THEN retries + 1 ELSE retries
          /\ rPc' = IF o = "true" THEN "break" ELSE "while"
          /\ sendLog' = Append(sendLog, m)
          /\ sentLog' = IF o = "true" THEN Append(sentLog, <<callNo, m>>) ELSE sentLog
    /\ UNCHANGED <<msgs0, rArgs, pending, rIdx, reported, callNo>>
    /\ UNCHANGED <<crPc, crRet, crSock, crContent>>
    /\ UNCHANGED nonCrVars

\* line 203: retry_pending_messages returned; return True
ConnReturn ==
    /\ crPc = "retrying"
    /\ rPc = "done"
    /\ crPc' = "returned"
    /\ crRet' = "True"
    /\ UNCHANGED <<crSock, crWire, crContent>>
    /\ UNCHANGED <<retryVars, nonCrVars>>

NextConnRetry ==
    \/ ConnConnect
    \/ ConnBreak
    \/ RetryFetch
    \/ RetryNextMsg
    \/ ConnRetryAttempt
    \/ RetryAfterLoop
    \/ ConnReturn

SpecConnRetry == InitConnRetry /\ [][NextConnRetry]_vars

\* C34: in the retry path of connect_to_peer a message goes from Pending to
\* Sent only when it was written on the socket; a message whose socket send
\* failed is a failure for retry_pending_messages and stays Pending.
C34_SentOnlyWhenTransmitted ==
    \A m \in MsgIds :
        (msgs0[m].sync_status = Pending /\ msgs[m].sync_status = Sent) =>
            m \in crWire

---------------------------------------------------------------------------
(* Concurrent retry paths for one peer *)

\* C35: however a retry_pending_messages call started by connect_to_peer
\* and the backend thread's _process_pending_messages interleave, no pending
\* message is written on the peer's socket by both: the sends to one peer
\* are serialized and each message is transmitted once.
C35_NoMessageSentByBothPaths ==
    \A m \in DOMAIN msgs :
        ~(<<"retry", m>> \in written /\ <<"backend", m>> \in written)

---------------------------------------------------------------------------
(* SpecCodec: the decoding of what recv returns in                          *)
(* ConnectionManager.receive_file_chunks (peer/connection_manager.py        *)
(* 125-141), once called with a tor_manager and once without, and           *)
(* TorManager.compress_data / decompress_data (utils/tor_manager.py 60-66). *)
(* A byte string is a message under z zlib layers; json is whether the      *)
(* innermost bytes are a JSON text (bytes that are neither a JSON text nor  *)
(* an intact zlib stream have z = 0 and json false).  The text of a JSON    *)
(* object starts with '{', which is no zlib header, and a zlib stream is    *)
(* no UTF-8 JSON text.                                                      *)

CodecMsgs ==
    {[type |-> "file_chunk", seq |-> 0, data |-> ToHex(<<0>>)],
     [type |-> "file_chunk", seq |-> 1, data |-> ToHex(<<1>>)],
     [type |-> "text", seq |-> 0, data |-> ToHex(<<0>>)]}

\* byte strings recv can return
CodecData ==
    [z : 0..MaxLayers, json : BOOLEAN, msg : CodecMsgs]

\* json.dumps(message).encode('utf-8') (connection_manager.py 357)
JsonBytes(m) == [z |-> 0, json |-> TRUE, msg |-> m]

\* tor_manager.py 60-62: zlib.compress(data)
compress_data(d) == [d EXCEPT !.z = @ + 1]

\* tor_manager.py 64-66: zlib.decompress(data) raises zlib.error on bytes
\* that are no intact zlib stream
DecompressRaises(d) == d.z = 0

\* tor_manager.py 64-66: what zlib.decompress(data) returns otherwise
decompress_data(d) == [d EXCEPT !.z = @ - 1]

\* mutant of DecompressOrFallback: bytes that do not decompress are lost
DecompressOrFallback_Drop(d) ==
    IF DecompressRaises(d) THEN [d EXCEPT !.json = FALSE] ELSE decompress_data(d)

\* connection_manager.py 129-133: try: data = decompress_data(data);
\* except Exception: pass
DecompressOrFallback(d) ==
    IF DecompressRaises(d) THEN d ELSE decompress_data(d)

\* line 134: json.loads(data.decode('utf-8')) raises on compressed bytes
\* and on bytes that are no JSON text
JsonRaises(d) == d.z > 0 \/ ~d.json

InitCodec ==
    /\ P2PIdle
    /\ RetryIdle
    /\ StatusIdle
    /\ TorIdle
    /\ BootIdle
    /\ MidIdle
    /\ TunIdle
    /\ CrIdle
    /\ SyncIdle
    /\ cdWire \in UNION {[1..n -> CodecData] : n \in 1..MaxCodecMsgs}
    /\ cdPc = [r \in Receivers |-> "recv"]
    /\ cdIdx = [r \in Receivers |-> 0]
    /\ cdChunks = [r \in Receivers |-> << >>]

\* lines 125-141: one pass of the loop of receive_file_chunks; recv returns
\* b'' after the last data and the loop is left
CodecRecv(r) ==
    /\ cdPc[r] = "recv"
    /\ IF cdIdx[r] = Len(cdWire)
       THEN /\ cdPc' = [cdPc EXCEPT ![r] = "returned"]
            /\ UNCHANGED <<cdIdx, cdChunks>>
       ELSE LET raw == cdWire[cdIdx[r] + 1]
                data == IF r = "with_tor_manager" THEN DecompressOrFallback(raw)
                        ELSE raw
            IN /\ cdIdx' = [cdIdx EXCEPT ![r] = @ + 1]
               /\ IF JsonRaises(data)
                  THEN /\ cdPc' = [cdPc EXCEPT ![r] = "raised"]
                       /\ UNCHANGED cdChunks
                  ELSE /\ cdChunks' =
                            [cdChunks EXCEPT ![r] =
                                IF data.msg.type = "file_chunk"
                                THEN Append(@, <<data.msg.seq, FromHex(data.msg.data)>>)
                                ELSE @]
                       /\ UNCHANGED cdPc
    /\ UNCHANGED cdWire
    /\ UNCHANGED nonCodecVars

NextCodec == \E r \in Receivers : CodecRecv(r)

SpecCodec == InitCodec /\ [][NextCodec]_vars

\* every byte string of the first n that recv returned is uncompressed
Uncompressed(n) == \A i \in 1..n : cdWire[i].z = 0

---------------------------------------------------------------------------
(* The direct-connect race of attempt_direct_p2p after the timeout won      *)

\* C32: when the timeout of attempt_direct_p2p has won and direct_connect
\* completes afterwards with a connected socket on which the rendezvous was
\* sent, that socket is closed when the call returns and is not the socket
\* returned.
C32_LateSocketClosed ==
    (callPc = "returned" /\ timedOut /\ workerRet = "sock") =>
        /\ sockState[DirectSock] = "closed"
        /\ result.socket # DirectSock

---------------------------------------------------------------------------
(* The backoff of retry_pending_messages *)

RECURSIVE Pow2(_)
Pow2(n) == IF n = 0 THEN 1 ELSE 2 * Pow2(n - 1)

\* C33: in one retry_pending_messages call the k-th failed attempt of a
\* message is followed by a sleep of 2^(k-1) seconds, starting at 1 second
\* for every message; send_func is invoked at most max_retries times for a
\* message, every attempt that reported failure is followed by a sleep, and
\* no attempt follows one that reported success.
C33_DoublingBackoffPerMessage ==
    \A m \in MsgIds :
        /\ \A k \in 1..Len(sleeps[m]) : sleeps[m][k] = Pow2(k - 1)
        /\ calls[m] <= rArgs.max_retries
        /\ okCalls[m] <= 1
        /\ Len(sleeps[m]) \in {calls[m], calls[m] - 1}
        /\ okCalls[m] = 1 => Len(sleeps[m]) = calls[m] - 1

\* one message exhausted its attempts with sleeps of 1 and 2 seconds and a
\* later message of the same call failed once and slept 1 second again
C33_Witness ==
    \E m1, m2 \in MsgIds :
        /\ m1 # m2
        /\ sleeps[m1] = <<1, 2>>
        /\ calls[m1] = 2
        /\ sleeps[m2] = <<1>>
        /\ okCalls[m2] = 1

---------------------------------------------------------------------------
(* The lifecycle of the TorManager as create_ephemeral_onion_service sees it *)

\* start_tor returned and stop_tor has not run since
GatewayRunning == startPc = "returned" /\ torCtl = "auth"

\* the last call was a create_ephemeral_onion_service that left by the
\* raise of lines 46-47
RaisedNotStarted ==
    lastOp.op = "create" /\ lastOp.raised /\ torCtl = "none"

\* the last call was a create_ephemeral_onion_service that went past the
\* test of line 46 and the cache and called the controller (line 55)
IssuedRequest ==
    lastOp.op = "create" /\ torCtl # "none" /\ ~lastOp.cached

\* C36: create_ephemeral_onion_service calls the controller only while the
\* manager is running (start_tor returned, stop_tor not yet called); before
\* any start, after a start_tor that raised and after stop_tor it raises
\* 'Tor is not started' and calls no controller.
C36_CreateOnlyWhenRunning ==
    /\ IssuedRequest => GatewayRunning
    /\ (lastOp.op = "create" /\ ~GatewayRunning) => RaisedNotStarted

---------------------------------------------------------------------------
(* The beacons of the transmit loop *)

\* C37: the beacon of every transmission round carries the time of that
\* round as its timestamp, not the time of an earlier round.
C37_BeaconFreshEveryRound ==
    (txLast.at >= 0 /\ txLast.at < MaxTxClock) =>
        txLast.ts = txLast.at \div RxTimeoutTicks

---------------------------------------------------------------------------
(* PeerDiscovery after stop() returned *)

\* C40: once stop() has returned, no step of the instance changes the peer
\* store or opens the database connection that stop() closed.
C40_NoStoreWriteAfterStop ==
    [][(stopPc = "returned" /\ stopPc' = "returned") =>
          (peerStore' = peerStore /\ dbConn' = "closed")]_vars

---------------------------------------------------------------------------
(* SpecSync: DBHandler.sync_messages (db/db_handler.py 202-218) called      *)
(* repeatedly with one known_clock on a messages table that does not        *)
(* change, and the CRDTEngine it feeds (sync/crdt_engine.py 16-54).  Row i  *)
(* of the table has id i; its content stands for itself.                    *)

\* crdt_engine.py 16-22: the dict after update_vector_clock(peer_id)
update_vector_clock(clocks, peer_id) ==
    [clocks EXCEPT ![peer_id] = @ + 1]

\* crdt_engine.py 34-43: vector_clocks and messages after add_message
add_message(clocks, messages, message_id, peer_id) ==
    LET c == update_vector_clock(clocks, peer_id)
    IN [clocks |-> c,
        messages |-> [messages EXCEPT ![message_id] =
                         [content |-> message_id, peer_id |-> peer_id,
                          timestamp |-> c[peer_id]]]]

RECURSIVE MissingFrom(_, _, _)
\* crdt_engine.py 50-53: the loop over self.messages.items() from key i on
MissingFrom(messages, known_clock, i) ==
    IF i > MaxSyncRows THEN << >>
    ELSE LET message == messages[i]
             rest == MissingFrom(messages, known_clock, i + 1)
         IN IF /\ message # NoCrdtMsg
               /\ \/ known_clock[message.peer_id] = NotInClock
                  \/ message.timestamp > known_clock[message.peer_id]
            THEN <<message>> \o rest
            ELSE rest

\* crdt_engine.py 45-54
get_missing_messages(messages, known_clock) ==
    MissingFrom(messages, known_clock, 1)

InitSync ==
    /\ P2PIdle
    /\ RetryIdle
    /\ StatusIdle
    /\ TorIdle
    /\ BootIdle
    /\ MidIdle
    /\ TunIdle
    /\ CrIdle
    /\ CodecIdle
    /\ syTable \in UNION {[1..n -> SyncPeers] : n \in 0..MaxSyncRows}
    /\ syKnown \in [SyncPeers -> {NotInClock} \cup 0..MaxKnownClock]
    /\ syPc = "idle"
    /\ syTodo = << >>
    /\ syCalls = 0
    /\ vector_clocks = [p \in SyncPeers |-> 0]
    /\ crdtMessages = [i \in 1..MaxSyncRows |-> NoCrdtMsg]
    /\ syHist = << >>

\* db_handler.py 206-209: the call fetches every row of the table
SyncFetch ==
    /\ syPc = "idle"
    /\ syCalls < MaxSyncCalls
    /\ syCalls' = syCalls + 1
    /\ syTodo' = [i \in 1..Len(syTable) |-> i]
    /\ syPc' = "adding"
    /\ UNCHANGED <<syTable, syKnown, vector_clocks, crdtMessages, syHist>>
    /\ UNCHANGED nonSyncVars

\* db_handler.py 212-213: add_message for the next fetched row
SyncAdd ==
    /\ syPc = "adding"
    /\ syTodo # << >>
    /\ LET id == Head(syTodo)
           a == add_message(vector_clocks, crdtMessages, id, syTable[id])
       IN /\ vector_clocks' = a.clocks
          /\ crdtMessages' = a.messages
    /\ syTodo' = Tail(syTodo)
    /\ UNCHANGED <<syTable, syKnown, syPc, syCalls, syHist>>
    /\ UNCHANGED nonSyncVars

\* db_handler.py 216-218: the missing messages are computed and returned
SyncReturn ==
    /\ syPc = "adding"
    /\ syTodo = << >>
    /\ syHist' = Append(syHist,
                        [ret |-> get_missing_messages(crdtMessages, syKnown),
                         clocks |-> vector_clocks,
                         messages |-> crdtMessages])
    /\ syPc' = "idle"
    /\ UNCHANGED <<syTable, syKnown, syTodo, syCalls, vector_clocks, crdtMessages>>
    /\ UNCHANGED nonSyncVars

NextSync ==
    \/ SyncFetch
    \/ SyncAdd
    \/ SyncReturn

SpecSync == InitSync /\ [][NextSync]_vars

\* the messages of a returned list, their timestamps left aside
ReturnedMessages(ret) ==
    {<<ret[k].content, ret[k].peer_id>> : k \in 1..Len(ret)}

\* C39: with the messages table unchanged, two consecutive calls of
\* sync_messages with the same known_clock return the same set of missing
\* messages, and the later call neither advances the vector clock nor
\* changes the timestamp of a message that was already loaded.
C39_SyncMessagesRepeatable ==
    \A i \in 1..(Len(syHist) - 1) :
        /\ ReturnedMessages(syHist[i + 1].ret) = ReturnedMessages(syHist[i].ret)
        /\ syHist[i + 1].clocks = syHist[i].clocks
        /\ \A id \in 1..MaxSyncRows :
              syHist[i].messages[id] # NoCrdtMsg =>
                 syHist[i + 1].messages[id].timestamp =
                    syHist[i].messages[id].timestamp

=============================================================================
